---- MODULE Spec2Model ----
(***************************************************************************)
(* A model of the finding-consolidation pipeline of the M&A due diligence  *)
(* analyzer: ResultAggregator (dd_aggregator1.py) and RuleEngine           *)
(* (dd_rule_engine2.py).                                                   *)
(*                                                                         *)
(* Strings of the program whose content the code inspects or builds        *)
(* (titles, descriptions, locations, recommendations, document text) are   *)
(* sequences of one-character strings, so that lower(), slicing,           *)
(* concatenation, split() and pattern matching are modelled by what they   *)
(* do.  Strings the code only carries along (source, document name) are    *)
(* plain TLA+ strings.                                                     *)
(***************************************************************************)
EXTENDS Integers, Sequences, FiniteSets, TLC

(***************************************************************************)
(* Python built-ins used by the aggregator                                 *)
(***************************************************************************)

UpperChars == <<"A","B","C","D","E","F","G","H","I","J","K","L","M",
                "N","O","P","Q","R","S","T","U","V","W","X","Y","Z">>

LowerChars == <<"a","b","c","d","e","f","g","h","i","j","k","l","m",
                "n","o","p","q","r","s","t","u","v","w","x","y","z">>

\* str.lower() on one character (ASCII letters; every other character is kept)
UpperSet == {UpperChars[i] : i \in 1..Len(UpperChars)}

LowerMap == [c \in UpperSet |->
                LowerChars[CHOOSE i \in 1..Len(UpperChars) : UpperChars[i] = c]]

LowerChar(c) == IF c \in UpperSet THEN LowerMap[c] ELSE c

\* the characters of a string literal, as a sequence
Chars(str) == <<>> \o [i \in 1..Len(str) |-> SubSeq(str, i, i)]

\* str.lower()
Lower(s) == <<>> \o [i \in 1..Len(s) |-> LowerChar(s[i])]

\* s[:n]
Take(s, n) == IF Len(s) <= n THEN s ELSE SubSeq(s, 1, n)

\* the characters str.split() with no argument treats as separators
Whitespace == {" ", "\t", "\n", "\r", "\f"}

\* str.split(): the maximal runs of non-whitespace characters, in order
TokenStarts(s) ==
    {i \in 1..Len(s) : s[i] \notin Whitespace /\ (i = 1 \/ s[i - 1] \in Whitespace)}

TokenEnds(s) ==
    {j \in 1..Len(s) : s[j] \notin Whitespace /\ (j = Len(s) \/ s[j + 1] \in Whitespace)}

RECURSIVE SplitFrom(_, _, _, _)
SplitFrom(s, starts, ends, acc) ==
    IF starts = {} THEN acc
    ELSE LET i == CHOOSE x \in starts : \A y \in starts : x <= y
             j == CHOOSE x \in ends : \A y \in ends : x <= y
         IN  SplitFrom(s, starts \ {i}, ends \ {j}, Append(acc, SubSeq(s, i, j)))

Split(s) == SplitFrom(s, TokenStarts(s), TokenEnds(s), <<>>)

\* set(list)
ToSet(seq) == {seq[i] : i \in 1..Len(seq)}

\* round(num / den, 2), as an integer number of hundredths.  Python rounds the
\* double num/den to the nearest hundredth and an exact tie to the even one;
\* a quotient that is a tie is a multiple of 1/8 for every den < 40, which a
\* double holds exactly, so the exact quotient decides.
Round2(num, den) ==
    LET q == (100 * num) \div den
        r == (100 * num) % den
    IN  IF 2 * r < den THEN q
        ELSE IF 2 * r > den THEN q + 1
        ELSE IF q % 2 = 0 THEN q ELSE q + 1

(***************************************************************************)
(* models/schemas.py: the enumerations the aggregator indexes by           *)
(***************************************************************************)

SeverityLevel == {"CRITICAL", "HIGH", "MEDIUM", "LOW"}

(***************************************************************************)
(* ResultAggregator                                                        *)
(***************************************************************************)

\* self.similarity_threshold = 0.7, in tenths
similarity_threshold == 7

\* description[:100]
DescLimit == 100

\* f"{flag.title.lower()}|{flag.description[:100].lower()}"
get_flag_key_untruncated(flag) ==
    Lower(flag.title) \o <<"|">> \o Lower(flag.description)

get_flag_key_no_lower(flag) ==
    flag.title \o <<"|">> \o Take(flag.description, DescLimit)

get_flag_key(flag) ==
    Lower(flag.title) \o <<"|">> \o Lower(Take(flag.description, DescLimit))

(***************************************************************************)
(* The findings the aggregator is run on                                   *)
(***************************************************************************)

Pad(n, c) == [i \in 1..n |-> c]

Title_Risk == <<"R","i","s","k">>
Title_RISK == <<"R","I","S","K">>
Title_Cap == <<"C","a","p">>
Title_Other == <<"O","t","h","e","r">>
Title_Tax == <<"T","a","x">>

\* ten, seven and six words once joined to the title
Desc_10 == <<"b"," ","c"," ","d"," ","e"," ","f"," ","g"," ","h"," ","i"," ","j"," ","k">>
Desc_7 == <<"B"," ","c"," ","d"," ","e"," ","f"," ","g"," ","h">>
Desc_6 == <<"b"," "," ","c","\t","d"," ","e"," ","f"," ","g">>

\* two descriptions equal in their first 100 characters and different after
Desc_Long1 == <<"x"," ">> \o Pad(95, "p") \o <<" ","a","b","c","d">>
Desc_Long2 == <<"x"," ">> \o Pad(95, "p") \o <<" ","a","b"," ","z","z"," ","y","y"," ","w","w"," ","v","v">>

Desc_Due == <<"d","u","e">>

RedFlag(category, severity, title, description, location, score, source, recommendation) ==
    [category |-> category, severity |-> severity, title |-> title,
     description |-> description, location |-> location, score |-> score,
     source |-> source, recommendation |-> recommendation]

P_A10 == RedFlag("financial", "HIGH", Title_Risk, Desc_10, Chars("sec 1"), 7, "rule_engine", Chars("fix a"))
P_A7 == RedFlag("financial", "CRITICAL", Title_RISK, Desc_7, Chars("sec 2"), 10, "claude", Chars("None"))
P_A6 == RedFlag("financial", "HIGH", Title_Risk, Desc_6, Chars("sec 3"), 7, "gpt4", Chars("fix c"))
P_B10 == RedFlag("legal", "LOW", Title_Risk, Desc_10, Chars("sec 4"), 2, "rule_engine", Chars("fix d"))
P_L1 == RedFlag("legal", "MEDIUM", Title_Cap, Desc_Long1, Chars("sec 5"), 5, "claude", Chars("fix e"))
P_L2 == RedFlag("legal", "CRITICAL", Title_Cap, Desc_Long2, Chars("sec 6"), 9, "gpt4", Chars("None"))
P_E == RedFlag("financial", "MEDIUM", Title_Other, <<>>, Chars(""), 4, "rule_engine", Chars("fix g"))
P_T == RedFlag("tax", "LOW", Title_Tax, Desc_Due, Chars("sec 8"), 3, "claude", Chars("fix h"))

FindingPool == {P_A10, P_A7, P_A6, P_B10, P_L1, P_L2}

\* the pool's findings and the two that only the worked scenario uses
KnownFindings == FindingPool \cup {P_E, P_T}

\* key.split() of the key of every known finding, computed once
SplitTable == {<<get_flag_key(f), Split(get_flag_key(f))>> : f \in KnownFindings}

KnownKeys == {e[1] : e \in SplitTable}

\* key.split(): read from the table for a known key, computed otherwise
key_split(key) ==
    IF key \in KnownKeys
    THEN (CHOOSE e \in SplitTable : e[1] = key)[2]
    ELSE Split(key)

\* similarity = overlap / union; similarity >= self.similarity_threshold
are_similar_strict(key1, key2) ==
    LET words1 == ToSet(key_split(key1))
        words2 == ToSet(key_split(key2))
    IN  IF words1 = {} \/ words2 = {}
        THEN FALSE
        ELSE 10 * Cardinality(words1 \cap words2)
                 > similarity_threshold * Cardinality(words1 \cup words2)

are_similar(key1, key2) ==
    LET words1 == ToSet(key_split(key1))
        words2 == ToSet(key_split(key2))
    IN  IF words1 = {} \/ words2 = {}
        THEN FALSE
        ELSE LET overlap == Cardinality(words1 \cap words2)
                 union   == Cardinality(words1 \cup words2)
             IN  IF union > 0
                 THEN 10 * overlap >= similarity_threshold * union
                 ELSE FALSE

\* by_category[flag.category]: the key a flag is grouped under
GroupKeyAll(flag) == "all"

GroupKey(flag) == flag.category

\* the keys of by_category in insertion order (a dict keeps insertion order)
RECURSIVE CategoryOrder(_, _, _)
CategoryOrder(flags, i, acc) ==
    IF i > Len(flags) THEN acc
    ELSE CategoryOrder(flags, i + 1,
             IF \E k \in 1..Len(acc) : acc[k] = GroupKey(flags[i])
             THEN acc ELSE Append(acc, GroupKey(flags[i])))

\* by_category[category]: the flags of one group, in arrival order
CategoryFlags(flags, category) ==
    SelectSeq(flags, LAMBDA f : GroupKey(f) = category)

\* the inner loop over category_flags: kept holds what this group appended to
\* deduplicated, seen_similar the keys of the flags kept
RECURSIVE DedupCategory(_, _, _, _)
DedupCategory(category_flags, i, kept, seen_similar) ==
    IF i > Len(category_flags) THEN kept
    ELSE LET flag == category_flags[i]
             flag_key == get_flag_key(flag)
             is_duplicate == \E seen_key \in seen_similar :
                                 are_similar(flag_key, seen_key)
         IN  IF ~is_duplicate
             THEN DedupCategory(category_flags, i + 1, Append(kept, flag),
                                seen_similar \cup {flag_key})
             ELSE DedupCategory(category_flags, i + 1, kept, seen_similar)

\* the outer loop over by_category.items()
RECURSIVE DedupGroups(_, _, _, _)
DedupGroups(flags, order, k, deduplicated) ==
    IF k > Len(order) THEN deduplicated
    ELSE DedupGroups(flags, order, k + 1,
             deduplicated \o DedupCategory(CategoryFlags(flags, order[k]), 1, <<>>, {}))

\* deduplicated.insert(0, flag) in place of deduplicated.append(flag)
Reverse(seq) == [i \in 1..Len(seq) |-> seq[Len(seq) + 1 - i]]

\* a kept flag takes the highest score of the flags of its group similar to it
deduplicate_flags_merge(flags) ==
    LET kept == IF flags = <<>> THEN <<>>
                ELSE DedupGroups(flags, CategoryOrder(flags, 1, <<>>), 1, <<>>)
        Best(f) == CHOOSE n \in {flags[i].score : i \in 1..Len(flags)} :
                       /\ \E i \in 1..Len(flags) :
                              /\ flags[i].score = n
                              /\ GroupKey(flags[i]) = GroupKey(f)
                              /\ are_similar(get_flag_key(flags[i]), get_flag_key(f))
                       /\ \A i \in 1..Len(flags) :
                              (/\ GroupKey(flags[i]) = GroupKey(f)
                               /\ are_similar(get_flag_key(flags[i]), get_flag_key(f)))
                                  => flags[i].score <= n
    IN  [i \in 1..Len(kept) |-> [kept[i] EXCEPT !.score = Best(kept[i])]]

deduplicate_flags_prepend(flags) ==
    IF flags = <<>> THEN <<>>
    ELSE Reverse(DedupGroups(flags, CategoryOrder(flags, 1, <<>>), 1, <<>>))

deduplicate_flags(flags) ==
    IF flags = <<>> THEN <<>>
    ELSE DedupGroups(flags, CategoryOrder(flags, 1, <<>>), 1, <<>>)

\* severity_order
severity_order == [CRITICAL |-> 0, HIGH |-> 1, MEDIUM |-> 2, LOW |-> 3]

\* key=lambda f: (severity_order[f.severity], -f.score), compared as tuples
SortKeyLess(a, b) ==
    \/ severity_order[a.severity] < severity_order[b.severity]
    \/ /\ severity_order[a.severity] = severity_order[b.severity]
       /\ (0 - a.score) < (0 - b.score)

\* list.sort is stable: an element goes behind every element whose key is
\* not greater than its own
InsertUnstable(sorted, f) ==
    LET n == Cardinality({i \in 1..Len(sorted) : SortKeyLess(sorted[i], f)})
    IN  SubSeq(sorted, 1, n) \o <<f>> \o SubSeq(sorted, n + 1, Len(sorted))

InsertStable(sorted, f) ==
    LET n == Cardinality({i \in 1..Len(sorted) : ~SortKeyLess(f, sorted[i])})
    IN  SubSeq(sorted, 1, n) \o <<f>> \o SubSeq(sorted, n + 1, Len(sorted))

RECURSIVE SortFrom(_, _, _)
SortFrom(flags, i, sorted) ==
    IF i > Len(flags) THEN sorted
    ELSE SortFrom(flags, i + 1, InsertStable(sorted, flags[i]))

\* deduplicated.sort(key=lambda f: (severity_order[f.severity], -f.score))
sort_flags(flags) == SortFrom(flags, 1, <<>>)

count_by_severity_first_only(flags) ==
    [s \in SeverityLevel |->
        IF \E i \in 1..Len(flags) : flags[i].severity = s THEN 1 ELSE 0]

count_by_severity(flags) ==
    [s \in SeverityLevel |->
        Cardinality({i \in 1..Len(flags) : flags[i].severity = s})]

\* severity_weights
severity_weights == [CRITICAL |-> 10, HIGH |-> 5, MEDIUM |-> 2, LOW |-> 1]

RECURSIVE WeightedSum(_, _)
WeightedSum(flags, i) ==
    IF i > Len(flags) THEN 0
    ELSE flags[i].score * severity_weights[flags[i].severity]
             + WeightedSum(flags, i + 1)

RECURSIVE TotalWeight(_, _)
TotalWeight(flags, i) ==
    IF i > Len(flags) THEN 0
    ELSE severity_weights[flags[i].severity] + TotalWeight(flags, i + 1)

RECURSIVE ScoreSum(_, _)
ScoreSum(flags, i) ==
    IF i > Len(flags) THEN 0 ELSE flags[i].score + ScoreSum(flags, i + 1)

\* the plain mean of the scores, the weights left out
calculate_risk_score_unweighted(flags) ==
    IF flags = <<>> THEN 0 ELSE Round2(ScoreSum(flags, 1), Len(flags))

\* the overall risk score in hundredths
calculate_risk_score(flags) ==
    IF flags = <<>> THEN 0
    ELSE LET weighted_sum == WeightedSum(flags, 1)
             total_weight == TotalWeight(flags, 1)
         IN  IF total_weight = 0 THEN 0
             ELSE Round2(weighted_sum, total_weight)

\* The list objects aggregate works on, by the name that refers to each:
\* rule_flags and llm_flags are the caller's lists, all_flags and deduplicated
\* are new lists, and sort() reorders deduplicated in place.
aggregate_lists_llm_first(rule_flags_arg, llm_flags_arg) ==
    LET all_flags == llm_flags_arg \o rule_flags_arg
        deduplicated0 == deduplicate_flags(all_flags)
    IN  [rule_flags |-> rule_flags_arg,
         llm_flags |-> llm_flags_arg,
         all_flags |-> all_flags,
         deduplicated |-> deduplicated0,
         flags |-> sort_flags(deduplicated0)]

aggregate_lists_in_place(rule_flags_arg, llm_flags_arg) ==
    LET all_flags == rule_flags_arg \o llm_flags_arg
        deduplicated0 == deduplicate_flags(all_flags)
    IN  [rule_flags |-> all_flags,
         llm_flags |-> llm_flags_arg,
         all_flags |-> all_flags,
         deduplicated |-> deduplicated0,
         flags |-> sort_flags(deduplicated0)]

aggregate_lists(rule_flags_arg, llm_flags_arg) ==
    LET all_flags == rule_flags_arg \o llm_flags_arg
        deduplicated0 == deduplicate_flags(all_flags)
    IN  [rule_flags |-> rule_flags_arg,
         llm_flags |-> llm_flags_arg,
         all_flags |-> all_flags,
         deduplicated |-> deduplicated0,
         flags |-> sort_flags(deduplicated0)]

\* the AnalysisResult aggregate builds from its lists; processing_time is in
\* thousandths of a second, processing_time_seconds and overall_risk_score in
\* hundredths
analysis_result(document_name_arg, lists, rule_flags_arg, llm_flags_arg, processing_time_arg, clock) ==
    LET severity_counts == count_by_severity(lists.flags)
        risk_score == calculate_risk_score(lists.flags)
    IN  [document_name |-> document_name_arg,
         analyzed_at |-> clock,
         total_flags |-> Len(lists.flags),
         critical_count |-> severity_counts["CRITICAL"],
         high_count |-> severity_counts["HIGH"],
         medium_count |-> severity_counts["MEDIUM"],
         low_count |-> severity_counts["LOW"],
         overall_risk_score |-> risk_score,
         flags |-> lists.flags,
         processing_time_seconds |-> Round2(processing_time_arg, 1000),
         metadata |-> [rule_flags_count |-> Len(rule_flags_arg),
                       llm_flags_count |-> Len(llm_flags_arg),
                       deduplication_removed |->
                           Len(lists.all_flags) - Len(lists.flags)]]

\* aggregate: the lists after the call and the AnalysisResult returned
aggregate(document_name_arg, rule_flags_arg, llm_flags_arg, processing_time_arg, clock) ==
    LET lists == aggregate_lists(rule_flags_arg, llm_flags_arg)
    IN  [rule_flags |-> lists.rule_flags,
         llm_flags |-> lists.llm_flags,
         result |-> analysis_result(document_name_arg, lists, rule_flags_arg,
                                    llm_flags_arg, processing_time_arg, clock)]

(***************************************************************************)
(* Python built-ins and re primitives used by the rule engine.  Offsets    *)
(* are Python's: the character at offset p of text is text[p + 1] here,    *)
(* and a match or slice [start, end) holds the offsets start .. end - 1.   *)
(***************************************************************************)

\* text[a:b], for 0 <= a and b <= len(text)
Slice(text, a, b) == IF a >= b THEN <<>> ELSE SubSeq(text, a + 1, b)

Max(a, b) == IF a >= b THEN a ELSE b

Min(a, b) == IF a <= b THEN a ELSE b

DigitChars == <<"0","1","2","3","4","5","6","7","8","9">>

DigitSet == {DigitChars[i] : i \in 1..Len(DigitChars)}

DigitValue == [c \in DigitSet |-> (CHOOSE i \in 1..Len(DigitChars) : DigitChars[i] = c) - 1]

\* int(digits), for a non-empty run of decimal digits
RECURSIVE ParseInt(_, _, _)
ParseInt(digits, i, acc) ==
    IF i > Len(digits) THEN acc
    ELSE ParseInt(digits, i + 1, 10 * acc + DigitValue[digits[i]])

\* str(n), as an f-string formats an int n >= 0
RECURSIVE IntToChars(_)
IntToChars(n) ==
    IF n < 10 THEN <<DigitChars[n + 1]>>
    ELSE Append(IntToChars(n \div 10), DigitChars[(n % 10) + 1])

\* the characters \w matches
WordCharSet == UpperSet \cup {LowerChars[i] : i \in 1..Len(LowerChars)} \cup DigitSet \cup {"_"}

\* \b at offset p: a word character on exactly one side
WordBoundary(text, p) ==
    LET before == p > 0 /\ text[p] \in WordCharSet
        after  == p < Len(text) /\ text[p + 1] \in WordCharSet
    IN  before # after

\* the literal lit at offset p of text; both are lowercased by the caller where
\* the pattern is compiled with re.IGNORECASE
LiteralAt(text, p, lit) ==
    /\ p + Len(lit) <= Len(text)
    /\ \A k \in 1..Len(lit) : text[p + k] = lit[k]

\* needle in haystack
Contains(haystack, needle) ==
    \E p \in 0..(Len(haystack) - Len(needle)) : LiteralAt(haystack, p, needle)

\* str.strip()
Strip(s) ==
    LET inked == {i \in 1..Len(s) : s[i] \notin Whitespace}
    IN  IF inked = {} THEN <<>>
        ELSE SubSeq(s, CHOOSE i \in inked : \A j \in inked : i <= j,
                       CHOOSE i \in inked : \A j \in inked : i >= j)

\* the end offset of the maximal run of characters of the set cs from offset p
RunEnd(text, p, cs) ==
    LET stops == {q \in p..Len(text) : q = Len(text) \/ text[q + 1] \notin cs}
    IN  CHOOSE q \in stops : \A r \in stops : q <= r

\* no match at an offset
NoMatch == [start |-> -1, end |-> -1, group |-> <<>>]

\* re.finditer: the matches found scanning from left to right, each search
\* resuming where the previous match ended.  match_at[p] is the match the
\* pattern has at offset p, or NoMatch.
RECURSIVE FindIterFrom(_, _, _, _)
FindIterFrom(match_at, starts, cursor, acc) ==
    LET rest == {p \in starts : p >= cursor}
    IN  IF rest = {} THEN acc
        ELSE LET p == CHOOSE x \in rest : \A y \in rest : x <= y
                 m == match_at[p]
             IN  FindIterFrom(match_at, starts, m.end, Append(acc, m))

FindIter(match_at) ==
    FindIterFrom(match_at, {p \in DOMAIN match_at : match_at[p] # NoMatch}, 0, <<>>)

\* re.finditer(rf'\b{re.escape(word)}\b', text, re.IGNORECASE)
WholeWordAt(text, ltext, lword, p) ==
    IF /\ LiteralAt(ltext, p, lword)
       /\ WordBoundary(text, p)
       /\ WordBoundary(text, p + Len(lword))
    THEN [start |-> p, end |-> p + Len(lword), group |-> <<>>]
    ELSE NoMatch

WholeWordMatches(text, word) ==
    LET ltext == Lower(text)
        lword == Lower(word)
        hits == {p \in 0..(Len(text) - Len(lword)) :
                     WholeWordAt(text, ltext, lword, p) # NoMatch}
    IN  FindIterFrom([p \in hits |-> WholeWordAt(text, ltext, lword, p)], hits, 0, <<>>)

(***************************************************************************)
(* utils/config.py and models/schemas.py: the pattern library and the      *)
(* category enumeration the rule engine imports                            *)
(***************************************************************************)

OFFSHORE_JURISDICTIONS == <<Chars("Cayman Islands"), Chars("Bermuda")>>

WEASEL_WORDS == <<Chars("reasonable"), Chars("material")>>

HIGH_RISK_PHRASES == <<Chars("to be determined"), Chars("subject to")>>

FlagCategory ==
    [JURISDICTION |-> "jurisdiction", FINANCIAL |-> "financial", LEGAL |-> "legal",
     OPERATIONAL |-> "operational", COMPLIANCE |-> "compliance",
     VAGUE_LANGUAGE |-> "vague_language", MISSING_INFO |-> "missing_info",
     LIABILITY |-> "liability", INTELLECTUAL_PROPERTY |-> "intellectual_property",
     TAX |-> "tax", EMPLOYEE |-> "employee", CUSTOMER |-> "customer",
     OTHER_CATEGORY |-> "other"]

\* the values of the members of FlagCategory
FlagCategoryValues == {FlagCategory[member] : member \in DOMAIN FlagCategory}

(***************************************************************************)
(* RuleEngine.  Each check is the sequence of findings it appends to       *)
(* self.flags, in the order it appends them.                               *)
(***************************************************************************)

\* the default of the chars parameter of _get_context
context_chars == 150

get_context(text, start, end, chars) ==
    LET context_start == Max(0, start - chars)
        context_end == Min(Len(text), end + chars)
        context == Strip(Slice(text, context_start, context_end))
        prefixed == IF context_start > 0 THEN Chars("...") \o context ELSE context
    IN  IF context_end < Len(text) THEN prefixed \o Chars("...") ELSE prefixed

\* [f(m) for m in matches], a finding per match
RECURSIVE Concat(_, _)
Concat(seqs, i) == IF i > Len(seqs) THEN <<>> ELSE seqs[i] \o Concat(seqs, i + 1)

escalation_keywords ==
    <<Chars("governing law"), Chars("arbitration"), Chars("dispute resolution")>>

\* the finding with the keywords looked for in the whole text
offshore_flag_whole_text(text, jurisdiction, match) ==
    LET context == get_context(text, match.start, match.end, context_chars)
        severity == IF \E k \in 1..Len(escalation_keywords) :
                           Contains(Lower(text), escalation_keywords[k])
                    THEN "CRITICAL" ELSE "HIGH"
    IN  RedFlag(FlagCategory.JURISDICTION, severity,
                Chars("Offshore Jurisdiction: ") \o jurisdiction,
                Chars("Document references ") \o jurisdiction
                    \o Chars(", which may indicate jurisdiction shopping or regulatory arbitrage."),
                context,
                IF severity = "CRITICAL" THEN 9 ELSE 7,
                "rule_engine",
                Chars("Require arbitration in neutral jurisdiction (Delaware, New York, or London). Investigate why offshore jurisdiction was chosen."))

offshore_flag(text, jurisdiction, match) ==
    LET context == get_context(text, match.start, match.end, context_chars)
        lcontext == Lower(context)
        severity == IF \E k \in 1..Len(escalation_keywords) :
                           Contains(lcontext, escalation_keywords[k])
                    THEN "CRITICAL" ELSE "HIGH"
    IN  RedFlag(FlagCategory.JURISDICTION, severity,
                Chars("Offshore Jurisdiction: ") \o jurisdiction,
                Chars("Document references ") \o jurisdiction
                    \o Chars(", which may indicate jurisdiction shopping or regulatory arbitrage."),
                context,
                IF severity = "CRITICAL" THEN 9 ELSE 7,
                "rule_engine",
                Chars("Require arbitration in neutral jurisdiction (Delaware, New York, or London). Investigate why offshore jurisdiction was chosen."))

check_offshore_jurisdictions(text) ==
    Concat([j \in 1..Len(OFFSHORE_JURISDICTIONS) |->
               LET jurisdiction == OFFSHORE_JURISDICTIONS[j]
                   matches == WholeWordMatches(text, jurisdiction)
               IN  [m \in 1..Len(matches) |-> offshore_flag(text, jurisdiction, matches[m])]], 1)

\* more than this many uses of a weasel word are flagged
weasel_limit == 3

weasel_flag(text, word, matches) ==
    LET first_match == matches[1]
        context == get_context(text, first_match.start, first_match.end, context_chars)
        count == IntToChars(Len(matches))
    IN  RedFlag(FlagCategory.VAGUE_LANGUAGE, "MEDIUM",
                Chars("Excessive Vague Language: '") \o word \o Chars("' (") \o count \o Chars("x)"),
                Chars("Term '") \o word \o Chars("' appears ") \o count
                    \o Chars(" times. Vague language creates ambiguity and potential for disputes."),
                context,
                5,
                "rule_engine",
                Chars("Request specific definitions and thresholds. Replace '") \o word
                    \o Chars("' with measurable criteria."))

\* the check with the threshold at weasel_limit uses
check_weasel_words_from_limit(text) ==
    Concat([w \in 1..Len(WEASEL_WORDS) |->
               LET word == WEASEL_WORDS[w]
                   matches == WholeWordMatches(text, word)
               IN  IF Len(matches) >= weasel_limit
                   THEN <<weasel_flag(text, word, matches)>>
                   ELSE <<>>], 1)

check_weasel_words(text) ==
    Concat([w \in 1..Len(WEASEL_WORDS) |->
               LET word == WEASEL_WORDS[w]
                   matches == WholeWordMatches(text, word)
               IN  IF Len(matches) > weasel_limit
                   THEN <<weasel_flag(text, word, matches)>>
                   ELSE <<>>], 1)

high_risk_flag(text, phrase, match) ==
    RedFlag(FlagCategory.MISSING_INFO, "HIGH",
            Chars("Deferred Disclosure: '") \o phrase \o Chars("'"),
            Chars("Critical information is deferred or incomplete. This is a major red flag - you're signing before having full information."),
            get_context(text, match.start, match.end, context_chars),
            8,
            "rule_engine",
            Chars("STOP. Do not sign until all referenced information is provided and reviewed. No post-closing surprises."))

check_high_risk_phrases(text) ==
    Concat([p \in 1..Len(HIGH_RISK_PHRASES) |->
               LET phrase == HIGH_RISK_PHRASES[p]
                   matches == WholeWordMatches(text, phrase)
               IN  [m \in 1..Len(matches) |-> high_risk_flag(text, phrase, matches[m])]], 1)

\* '.' without re.DOTALL: no newline at the offsets a .. b - 1
NoNewline(text, a, b) == \A i \in (a + 1)..b : text[i] # "\n"

GreatestOf(S) == CHOOSE x \in S : \A y \in S : x >= y

LeastOf(S) == CHOOSE x \in S : \A y \in S : x <= y

missing_indicators ==
    <<Chars("being finalized"), Chars("to be provided"), Chars("being compiled"),
      Chars("will be attached"), Chars("to be determined")>>

\* the bound of both .{0,100} of the context pattern
indicator_window == 100

\* re.search(rf'.{{0,100}}{indicator}.{{0,100}}', text, re.IGNORECASE): the
\* leftmost offset a match starts at; from there the first .{0,100} takes as
\* many characters as still leave the indicator next, and the second as many
\* as the line has
context_search(text, indicator) ==
    LET ltext == Lower(text)
        found == {o \in 0..(Len(text) - Len(indicator)) : LiteralAt(ltext, o, indicator)}
        Reach(s) == {o \in found : s <= o /\ o - s <= indicator_window /\ NoNewline(text, s, o)}
        starts == {s \in 0..Len(text) : Reach(s) # {}}
    IN  IF starts = {} THEN NoMatch
        ELSE LET s == LeastOf(starts)
                 o == GreatestOf(Reach(s))
                 e == o + Len(indicator)
                 tails == {t \in e..Min(Len(text), e + indicator_window) : NoNewline(text, e, t)}
             IN  [start |-> s, end |-> GreatestOf(tails), group |-> <<>>]

missing_schedule_flag(text, indicator, context_match) ==
    RedFlag(FlagCategory.MISSING_INFO, "CRITICAL",
            Chars("Missing or Incomplete Schedules"),
            Chars("Schedules are incomplete: '") \o indicator
                \o Chars("'. Never sign with missing schedules."),
            Slice(text, context_match.start, context_match.end),
            10,
            "rule_engine",
            Chars("Require all schedules to be completed and attached before signing. Missing schedules = unknown liabilities."))

\* the loop over missing_indicators from the i-th on; it breaks at the first
\* indicator that is in text.lower() and that the context pattern finds
RECURSIVE missing_schedules_from(_, _)
missing_schedules_from(text, i) ==
    IF i > Len(missing_indicators) THEN <<>>
    ELSE LET indicator == missing_indicators[i]
             context_match == context_search(text, indicator)
         IN  IF Contains(Lower(text), indicator) /\ context_match # NoMatch
             THEN <<missing_schedule_flag(text, indicator, context_match)>>
             ELSE missing_schedules_from(text, i + 1)

\* the check naming the indicator that occurs earliest in the text
check_missing_schedules_earliest(text) ==
    LET ltext == Lower(text)
        At(k) == {o \in 0..(Len(text) - Len(missing_indicators[k])) :
                     LiteralAt(ltext, o, missing_indicators[k])}
        present == {k \in 1..Len(missing_indicators) : At(k) # {}}
    IN  IF present = {} THEN <<>>
        ELSE LET k == CHOOSE k \in present :
                          \A m \in present : LeastOf(At(k)) <= LeastOf(At(m))
             IN  <<missing_schedule_flag(text, missing_indicators[k],
                                         context_search(text, missing_indicators[k]))>>

check_missing_schedules(text) == missing_schedules_from(text, 1)

\* the bound of [^.]{0,50} of the audit pattern
audit_gap == 50

\* audit(?:ed)?[^.]{0,50}(?:19|20)(\d{2}) at offset s: "ed" is taken when it is
\* there and given back only when no match follows it; the gap is as long as
\* still leaves a year next
audit_match_at(text, ltext, s) ==
    IF ~LiteralAt(ltext, s, Chars("audit")) THEN NoMatch
    ELSE LET YearAt(p) ==
                 /\ p + 4 <= Len(text)
                 /\ (LiteralAt(text, p, Chars("19")) \/ LiteralAt(text, p, Chars("20")))
                 /\ text[p + 3] \in DigitSet
                 /\ text[p + 4] \in DigitSet
             Gaps(b) == {k \in 0..audit_gap :
                            YearAt(b + k) /\ \A i \in (b + 1)..(b + k) : text[i] # "."}
             bases == IF LiteralAt(ltext, s + 5, Chars("ed")) THEN <<s + 7, s + 5>> ELSE <<s + 5>>
             usable == {n \in 1..Len(bases) : Gaps(bases[n]) # {}}
         IN  IF usable = {} THEN NoMatch
             ELSE LET b == bases[LeastOf(usable)]
                      p == b + GreatestOf(Gaps(b))
                  IN  [start |-> s, end |-> p + 4, group |-> Slice(text, p + 2, p + 4)]

audit_matches(text) ==
    LET ltext == Lower(text)
    IN  FindIter([s \in 0..Len(text) |-> audit_match_at(text, ltext, s)])

audit_flag(text, full_year, match) ==
    RedFlag(FlagCategory.FINANCIAL, "HIGH",
            Chars("Outdated Financial Audit (") \o IntToChars(full_year) \o Chars(")"),
            Chars("Most recent audit mentioned is from ") \o IntToChars(full_year)
                \o Chars(", which is too old to be reliable."),
            get_context(text, match.start, match.end, context_chars),
            7,
            "rule_engine",
            Chars("Require current audited financials (within 12 months). Outdated audits hide recent problems."))

\* every two-digit year taken as one of this century
full_year_of_this_century(year) == 2000 + year

full_year_of(year) == IF year > 50 THEN 1900 + year ELSE 2000 + year

check_date_anomalies(text) ==
    LET matches == audit_matches(text)
    IN  Concat([m \in 1..Len(matches) |->
                   LET year == ParseInt(matches[m].group, 1, 0)
                       full_year == full_year_of(year)
                   IN  IF full_year < 2023
                       THEN <<audit_flag(text, full_year, matches[m])>>
                       ELSE <<>>], 1)

\* the red_flags dict of _check_payment_red_flags, in insertion order; each
\* pattern is a word, ".*" and an alternation of endings
payment_red_flags ==
    <<[word |-> Chars("earnout"),
       endings |-> <<Chars("undefined"), Chars("to be determined"), Chars("mutually agreed")>>,
       title |-> Chars("Undefined Earnout Targets"),
       severity |-> "CRITICAL",
       score |-> 10,
       recommendation |-> Chars("Never accept undefined earnout metrics. Specify exact EBITDA/revenue targets and calculation methods.")],
      [word |-> Chars("deferred"),
       endings |-> <<Chars("performance metrics"), Chars("to be determined")>>,
       title |-> Chars("Undefined Deferred Payment Terms"),
       severity |-> "HIGH",
       score |-> 8,
       recommendation |-> Chars("All deferred payment triggers must be clearly defined at signing.")]>>

\* word.*(?:ending|...) with re.IGNORECASE | re.DOTALL at offset s: ".*" runs to
\* the last offset an ending starts at, where the first ending that fits is taken
payment_match_at(ltext, s, word, endings) ==
    IF ~LiteralAt(ltext, s, word) THEN NoMatch
    ELSE LET Fitting(p) == {e \in 1..Len(endings) : LiteralAt(ltext, p, endings[e])}
             ps == {p \in (s + Len(word))..Len(ltext) : Fitting(p) # {}}
         IN  IF ps = {} THEN NoMatch
             ELSE LET p == GreatestOf(ps)
                  IN  [start |-> s,
                       end |-> p + Len(endings[LeastOf(Fitting(p))]),
                       group |-> <<>>]

payment_flag(text, flag_info, match) ==
    RedFlag(FlagCategory.FINANCIAL, flag_info.severity,
            flag_info.title,
            Chars("Payment terms are incomplete or subject to future agreement. This creates massive dispute risk."),
            get_context(text, match.start, match.end, context_chars),
            flag_info.score,
            "rule_engine",
            flag_info.recommendation)

check_payment_red_flags(text) ==
    LET ltext == Lower(text)
    IN  Concat([f \in 1..Len(payment_red_flags) |->
                   LET flag_info == payment_red_flags[f]
                       matches == FindIter([s \in 0..Len(text) |->
                                      payment_match_at(ltext, s, flag_info.word, flag_info.endings)])
                   IN  [m \in 1..Len(matches) |-> payment_flag(text, flag_info, matches[m])]], 1)

\* (?:months?|days?) at offset r: the offset it ends at, or -1
unit_end(ltext, r) ==
    LET plural(e) == IF e < Len(ltext) /\ ltext[e + 1] = "s" THEN e + 1 ELSE e
    IN  IF LiteralAt(ltext, r, Chars("month")) THEN plural(r + 5)
        ELSE IF LiteralAt(ltext, r, Chars("day")) THEN plural(r + 3)
        ELSE -1

\* (?:surviv|representations).*?(\d+)\s*(?:months?|days?) with re.IGNORECASE at
\* offset s: ".*?" stops at the first offset of the line from which a run of
\* digits, whitespace and a unit follow
survival_match_at(text, ltext, s) ==
    LET b == IF LiteralAt(ltext, s, Chars("surviv")) THEN s + 6
             ELSE IF LiteralAt(ltext, s, Chars("representations")) THEN s + 15
             ELSE -1
        DigitsEnd(p) == RunEnd(text, p, DigitSet)
        UnitEnd(p) == unit_end(ltext, RunEnd(text, DigitsEnd(p), Whitespace))
        ps == {p \in b..(Len(text) - 1) :
                  text[p + 1] \in DigitSet /\ NoNewline(text, b, p) /\ UnitEnd(p) >= 0}
    IN  IF b < 0 \/ ps = {} THEN NoMatch
        ELSE LET p == LeastOf(ps)
             IN  [start |-> s, end |-> UnitEnd(p), group |-> Slice(text, p, DigitsEnd(p))]

survival_flag(text, period, match) ==
    RedFlag(FlagCategory.LIABILITY, "HIGH",
            Chars("Short Survival Period (") \o IntToChars(period) \o Chars(" months)"),
            Chars("Representations survive only ") \o IntToChars(period)
                \o Chars(" months. Industry standard is 18-24 months minimum."),
            get_context(text, match.start, match.end, context_chars),
            7,
            "rule_engine",
            Chars("Negotiate longer survival period (minimum 18 months). ") \o IntToChars(period)
                \o Chars(" months is insufficient for most issues to surface."))

check_liability_limitations(text) ==
    LET ltext == Lower(text)
        matches == FindIter([s \in 0..Len(text) |-> survival_match_at(text, ltext, s)])
    IN  Concat([m \in 1..Len(matches) |->
                   LET period == ParseInt(matches[m].group, 1, 0)
                   IN  IF period < 12
                       THEN <<survival_flag(text, period, matches[m])>>
                       ELSE <<>>], 1)

\* top\s+\d+\s+customers?.*?(\d+)% with re.IGNORECASE at offset s: ".*?" stops
\* at the first offset of the line from which a run of digits and "%" follow
concentration_match_at(text, ltext, s) ==
    IF ~LiteralAt(ltext, s, Chars("top")) THEN NoMatch
    ELSE LET a1 == RunEnd(text, s + 3, Whitespace)
             a2 == RunEnd(text, a1, DigitSet)
             a3 == RunEnd(text, a2, Whitespace)
             c == a3 + 8
             b == IF c < Len(text) /\ ltext[c + 1] = "s" THEN c + 1 ELSE c
             DigitsEnd(p) == RunEnd(text, p, DigitSet)
             ps == {p \in b..(Len(text) - 1) :
                       /\ text[p + 1] \in DigitSet
                       /\ NoNewline(text, b, p)
                       /\ DigitsEnd(p) < Len(text)
                       /\ text[DigitsEnd(p) + 1] = "%"}
         IN  IF \/ a1 = s + 3 \/ a2 = a1 \/ a3 = a2
                \/ ~LiteralAt(ltext, a3, Chars("customer"))
                \/ ps = {}
             THEN NoMatch
             ELSE LET p == LeastOf(ps)
                  IN  [start |-> s, end |-> DigitsEnd(p) + 1,
                       group |-> Slice(text, p, DigitsEnd(p))]

\* the finding with CRITICAL from 70 on
concentration_flag_from_seventy(text, percentage, match) ==
    RedFlag(FlagCategory.CUSTOMER,
            IF percentage >= 70 THEN "CRITICAL" ELSE "HIGH",
            Chars("High Customer Concentration (") \o IntToChars(percentage) \o Chars("%)"),
            Chars("Top customers represent ") \o IntToChars(percentage)
                \o Chars("% of revenue. Loss of any major customer could be catastrophic."),
            get_context(text, match.start, match.end, context_chars),
            IF percentage >= 70 THEN 9 ELSE 7,
            "rule_engine",
            Chars("Require customer retention agreements, escrow protection, or earnout tied to customer retention."))

concentration_flag(text, percentage, match) ==
    RedFlag(FlagCategory.CUSTOMER,
            IF percentage > 70 THEN "CRITICAL" ELSE "HIGH",
            Chars("High Customer Concentration (") \o IntToChars(percentage) \o Chars("%)"),
            Chars("Top customers represent ") \o IntToChars(percentage)
                \o Chars("% of revenue. Loss of any major customer could be catastrophic."),
            get_context(text, match.start, match.end, context_chars),
            IF percentage > 70 THEN 9 ELSE 7,
            "rule_engine",
            Chars("Require customer retention agreements, escrow protection, or earnout tied to customer retention."))

check_customer_concentration(text) ==
    LET ltext == Lower(text)
        matches == FindIter([s \in 0..Len(text) |-> concentration_match_at(text, ltext, s)])
    IN  Concat([m \in 1..Len(matches) |->
                   LET percentage == ParseInt(matches[m].group, 1, 0)
                   IN  IF percentage > 50
                       THEN <<concentration_flag(text, percentage, matches[m])>>
                       ELSE <<>>], 1)

\* the engine: the list objects created so far and the one self.flags is bound to
\* __init__: self.flags = []
new_engine == [lists |-> <<<<>>>>, flags |-> 1]

\* self.flags = [], left out
keep_flags(engine) == engine

\* self.flags = []: a new list object, which self.flags is bound to
reset_flags(engine) ==
    [lists |-> Append(engine.lists, <<>>), flags |-> Len(engine.lists) + 1]

\* self.flags.append(...) for each finding of a check, in order
append_flags(engine, found) ==
    [engine EXCEPT !.lists[engine.flags] = @ \o found]

\* analyze with the checks called from the last to the first
analyze_backwards(engine, full_text) ==
    LET e0 == reset_flags(engine)
        e1 == append_flags(e0, check_customer_concentration(full_text))
        e2 == append_flags(e1, check_liability_limitations(full_text))
        e3 == append_flags(e2, check_payment_red_flags(full_text))
        e4 == append_flags(e3, check_date_anomalies(full_text))
        e5 == append_flags(e4, check_missing_schedules(full_text))
        e6 == append_flags(e5, check_high_risk_phrases(full_text))
        e7 == append_flags(e6, check_weasel_words(full_text))
        e8 == append_flags(e7, check_offshore_jurisdictions(full_text))
    IN  [engine |-> e8, returned |-> e8.flags]

\* analyze: the engine after the call and the list object returned
analyze(engine, full_text) ==
    LET e0 == reset_flags(engine)
        e1 == append_flags(e0, check_offshore_jurisdictions(full_text))
        e2 == append_flags(e1, check_weasel_words(full_text))
        e3 == append_flags(e2, check_high_risk_phrases(full_text))
        e4 == append_flags(e3, check_missing_schedules(full_text))
        e5 == append_flags(e4, check_date_anomalies(full_text))
        e6 == append_flags(e5, check_payment_red_flags(full_text))
        e7 == append_flags(e6, check_liability_limitations(full_text))
        e8 == append_flags(e7, check_customer_concentration(full_text))
    IN  [engine |-> e8, returned |-> e8.flags]

\* the findings the k-th check of analyze appends for a text
check_output(k, text) ==
    CASE k = 1 -> check_offshore_jurisdictions(text)
      [] k = 2 -> check_weasel_words(text)
      [] k = 3 -> check_high_risk_phrases(text)
      [] k = 4 -> check_missing_schedules(text)
      [] k = 5 -> check_date_anomalies(text)
      [] k = 6 -> check_payment_red_flags(text)
      [] k = 7 -> check_liability_limitations(text)
      [] k = 8 -> check_customer_concentration(text)

\* analyze, a statement at a time, for a caller at pc on the engine self: 0 is
\* before self.flags = [], k in 1..8 before the k-th check, 9 before return
analyze_step(self, pc, full_text) ==
    IF pc = 0 THEN reset_flags(self)
    ELSE IF pc \in 1..8 THEN append_flags(self, check_output(pc, full_text))
    ELSE self

(***************************************************************************)
(* LLMAnalyzer.  What a call or an awaited task comes to is an outcome:    *)
(* a value returned, here a list of findings, or an exception raised.      *)
(***************************************************************************)

Returns(value) == [raised |-> FALSE, value |-> value]

Raises == [raised |-> TRUE, value |-> <<>>]

\* the for loop over the chunks of a provider call, from the i-th chunk on:
\* responses[i] is what the provider's API call and the parsing of its answer
\* come to for chunk i, all_flags what the chunks before it gave
RECURSIVE analyze_chunks(_, _, _)
analyze_chunks(responses, i, all_flags) ==
    IF i > Len(responses) THEN Returns(all_flags)
    ELSE IF responses[i].raised THEN Raises
    ELSE analyze_chunks(responses, i + 1, all_flags \o responses[i].value)

\* the try block with an except branch that returns what the chunks before the
\* failing one gave
RECURSIVE analyze_chunks_partial(_, _, _)
analyze_chunks_partial(responses, i, all_flags) ==
    IF i > Len(responses) \/ responses[i].raised THEN Returns(all_flags)
    ELSE analyze_chunks_partial(responses, i + 1, all_flags \o responses[i].value)

analyze_with_claude_partial(responses) == analyze_chunks_partial(responses, 1, <<>>)

\* _analyze_with_claude: try the loop; except Exception: return []
analyze_with_claude(responses) ==
    LET body == analyze_chunks(responses, 1, <<>>)
    IN  IF body.raised THEN Returns(<<>>) ELSE body

\* _analyze_with_gpt: try the loop; except Exception: return []
analyze_with_gpt(responses) ==
    LET body == analyze_chunks(responses, 1, <<>>)
    IN  IF body.raised THEN Returns(<<>>) ELSE body

\* await asyncio.gather(*tasks, return_exceptions=True): the results of the
\* tasks in the order of tasks, an exception a task raised being its result
gather_return_exceptions(tasks) ==
    [t \in 1..Len(tasks) |->
        IF tasks[t].raised THEN [exception |-> TRUE, list |-> <<>>]
        ELSE [exception |-> FALSE, list |-> tasks[t].value]]

\* the loop that flattens results, from the i-th result on
RECURSIVE flatten_results(_, _, _)
flatten_results(results, i, all_flags) ==
    IF i > Len(results) THEN all_flags
    ELSE IF results[i].exception THEN flatten_results(results, i + 1, all_flags)
    ELSE flatten_results(results, i + 1, all_flags \o results[i].list)

\* LLMAnalyzer.analyze: what the call comes to, given what the API calls of the
\* two providers come to for each chunk
llm_analyze(use_claude, use_gpt, claude_responses, gpt_responses) ==
    LET claude_task == IF use_claude THEN <<analyze_with_claude(claude_responses)>> ELSE <<>>
        gpt_task == IF use_gpt THEN <<analyze_with_gpt(gpt_responses)>> ELSE <<>>
        tasks == claude_task \o gpt_task
    IN  IF tasks = <<>> THEN Returns(<<>>)
        ELSE Returns(flatten_results(gather_return_exceptions(tasks), 1, <<>>))

(***************************************************************************)
(* LLMAnalyzer._parse_llm_response, from what json.loads makes of the      *)
(* cleaned response text.  A JSON value is its type with its text or its   *)
(* number; an item of the list is its type with, for an object, the value  *)
(* of each key the code reads, a key the object lacks being JMissing.      *)
(***************************************************************************)

JStr(s) == [type |-> "str", str |-> s, int |-> 0]

JInt(n) == [type |-> "int", str |-> <<>>, int |-> n]

\* null, which json.loads makes None
JNull == [type |-> "null", str |-> <<>>, int |-> 0]

\* the empty array []
JList == [type |-> "list", str |-> <<>>, int |-> 0]

\* no such key in the object
JMissing == [type |-> "missing", str |-> <<>>, int |-> 0]

JObject(category, severity, title, description, quote, location, score, recommendation) ==
    [type |-> "dict",
     fields |-> [category |-> category, severity |-> severity, title |-> title,
                 description |-> description, quote |-> quote, location |-> location,
                 score |-> score, recommendation |-> recommendation]]

\* an item of the list that is not an object
JScalar(type) ==
    [type |-> type,
     fields |-> [category |-> JMissing, severity |-> JMissing, title |-> JMissing,
                 description |-> JMissing, quote |-> JMissing, location |-> JMissing,
                 score |-> JMissing, recommendation |-> JMissing]]

\* item.get(key, default); only a dict has the method
dict_get(item, key, default) ==
    IF item.type # "dict" THEN Raises
    ELSE IF item.fields[key].type = "missing" THEN Returns(default)
    ELSE Returns(item.fields[key])

\* FlagCategory(value), SeverityLevel(value): the member with that value, or
\* ValueError
enum_call(values, v) ==
    IF v.type = "str" /\ \E member \in values : Chars(member) = v.str
    THEN Returns(CHOOSE member \in values : Chars(member) = v.str)
    ELSE Raises

\* the digits of an int literal: digits, single underscores between them
IntLiteralBody(s) ==
    /\ s # <<>>
    /\ \A i \in 1..Len(s) : s[i] \in DigitSet \cup {"_"}
    /\ s[1] # "_" /\ s[Len(s)] # "_"
    /\ \A i \in 1..(Len(s) - 1) : ~(s[i] = "_" /\ s[i + 1] = "_")

RECURSIVE DigitsOf(_)
DigitsOf(s) ==
    IF s = <<>> THEN <<>>
    ELSE IF Head(s) = "_" THEN DigitsOf(Tail(s))
    ELSE <<Head(s)>> \o DigitsOf(Tail(s))

\* int(value): an int is itself, a str is parsed, None and a list raise
\* TypeError, a str that is no int literal raises ValueError
int_call(v) ==
    IF v.type = "int" THEN Returns(v.int)
    ELSE IF v.type = "str"
    THEN LET s == Strip(v.str)
             signed == s # <<>> /\ s[1] \in {"+", "-"}
             body == IF signed THEN Tail(s) ELSE s
         IN  IF ~IntLiteralBody(body) THEN Raises
             ELSE IF signed /\ s[1] = "-" THEN Returns(0 - ParseInt(DigitsOf(body), 1, 0))
             ELSE Returns(ParseInt(DigitsOf(body), 1, 0))
    ELSE Raises

\* the [:500] of the location argument
location_limit == 500

\* value[:500]: a str and a list can be sliced, None and an int cannot
slice_call(v) ==
    IF v.type = "str" THEN Returns(JStr(Take(v.str, location_limit)))
    ELSE IF v.type = "list" THEN Returns(v)
    ELSE Raises

\* str(value), for a value kept in a field that is annotated str
Rendered(v) ==
    IF v.type = "str" THEN v.str
    ELSE IF v.type = "int" THEN IntToChars(v.int)
    ELSE IF v.type = "list" THEN Chars("[]")
    ELSE Chars("None")

\* RedFlag(...) of models/schemas.py as the parser calls it.  A schema that
\* validates (validates = TRUE) raises on a text field that holds no str and
\* on a score outside 1 .. 10; one that does not keeps what it is given.
RedFlag_call(category, severity, title, description, location, score, source, recommendation, validates) ==
    IF validates /\ (\/ title.type # "str"
                     \/ description.type # "str"
                     \/ location.type # "str"
                     \/ recommendation.type \notin {"str", "null"}
                     \/ score \notin 1..10)
    THEN Raises
    ELSE Returns(RedFlag(category, severity, Rendered(title), Rendered(description),
                         Rendered(location), score, source, Rendered(recommendation)))

\* the body of the try block in the loop over data
parse_item(item, source, validates) ==
    LET category_arg == dict_get(item, "category", JStr(Chars("other")))
        severity_arg == dict_get(item, "severity", JStr(Chars("MEDIUM")))
        title == dict_get(item, "title", JStr(Chars("Unspecified Issue")))
        description == dict_get(item, "description", JStr(<<>>))
        location_arg == dict_get(item, "quote", dict_get(item, "location", JStr(<<>>)).value)
        score_arg == dict_get(item, "score", JInt(5))
        recommendation == dict_get(item, "recommendation", JNull)
    IN  IF item.type # "dict" THEN Raises
        ELSE LET category == enum_call(FlagCategoryValues, category_arg.value)
                 severity == enum_call(SeverityLevel, severity_arg.value)
                 location == slice_call(location_arg.value)
                 score == int_call(score_arg.value)
             IN  IF category.raised \/ severity.raised \/ location.raised \/ score.raised
                 THEN Raises
                 ELSE RedFlag_call(category.value, severity.value, title.value,
                                   description.value, location.value, score.value,
                                   source, recommendation.value, validates)

\* the loop without its try: the first item that raises ends the loop in the
\* outer handler, which returns []
RECURSIVE parse_items_unguarded(_, _, _, _, _)
parse_items_unguarded(data, i, flags, source, validates) ==
    IF i > Len(data) THEN flags
    ELSE LET parsed == parse_item(data[i], source, validates)
         IN  IF parsed.raised THEN <<>>
             ELSE parse_items_unguarded(data, i + 1, Append(flags, parsed.value),
                                        source, validates)

\* for item in data: try: flags.append(RedFlag(...)) except Exception: continue
RECURSIVE parse_items(_, _, _, _, _)
parse_items(data, i, flags, source, validates) ==
    IF i > Len(data) THEN flags
    ELSE LET parsed == parse_item(data[i], source, validates)
         IN  IF parsed.raised
             THEN parse_items(data, i + 1, flags, source, validates)
             ELSE parse_items(data, i + 1, Append(flags, parsed.value), source, validates)

\* _parse_llm_response.  response.kind is what json.loads comes to: "array" a
\* list, "flags_object" an object whose "flags" is the list, "object" an
\* object without "flags", "scalar" any other value, "invalid" a
\* JSONDecodeError; response.items is the list.
parse_llm_response(response, source, validates) ==
    IF response.kind = "invalid" THEN Returns(<<>>)
    ELSE IF response.kind \in {"object", "scalar"} THEN Returns(<<>>)
    ELSE Returns(parse_items(response.items, 1, <<>>, source, validates))

(***************************************************************************)
(* The inputs the aggregator is run on                                     *)
(***************************************************************************)

\* the largest number of findings in rule_flags and llm_flags together
MaxFlags == 3

\* the largest number of aggregate calls on one request
MaxCalls == 2

\* the largest number of times the dedup step is run on its own output
MaxDedupRuns == 2

\* a finding as the object at position i of the request: id stands for the
\* object's identity, which no code reads
WithId(f, i) ==
    [id |-> i, category |-> f.category, severity |-> f.severity, title |-> f.title,
     description |-> f.description, location |-> f.location, score |-> f.score,
     source |-> f.source, recommendation |-> f.recommendation]

Tagged(seq, from) == [i \in 1..Len(seq) |-> WithId(seq[i], from + i)]

\* every split of every sequence of at most MaxFlags pool findings
BoundedInputs ==
    UNION {{ <<Tagged(SubSeq(c, 1, k), 0), Tagged(SubSeq(c, k + 1, n), k)>> :
                k \in 0..n, c \in [1..n -> FindingPool] } : n \in 0..MaxFlags}

\* five rule findings, pairwise dissimilar, and three external findings of
\* which two are near-duplicates of rule findings of their category
ScenarioRule == <<P_A10, P_A6, P_B10, P_L1, P_E>>

ScenarioInputs ==
    { <<Tagged(ScenarioRule, 0), Tagged(l, 5)>> :
        l \in {<<P_L2, P_A7, P_T>>, <<P_T, P_L2, P_A7>>, <<P_A7, P_T, P_L2>>} }

\* two findings of one category that are dissimilar, and two of another that
\* are similar
PairsInput == <<Tagged(<<P_B10, P_L1>>, 0), Tagged(<<P_A10, P_A7>>, 2)>>

DocumentNames == {"contract.pdf"}

\* the largest number of analyze calls on one RuleEngine
MaxAnalyzeCalls == 3

\* document texts: one per group of checks, one without a finding and one
\* longer than the context of a match
Doc_Offshore == Chars("Governing law: Cayman Islands. Audited in 2019.")
Doc_Customers == Chars("Top 5 customers represent 75% of revenue. Schedule A to be provided.")
Doc_Vague == Chars("reasonable efforts, Reasonable time, reasonable cost, REASONABLE notice")
Doc_Earnout == Chars("Earnout to be determined.\nRepresentations survive 6 months.")
Doc_Plain == Chars("Plain text with nothing.")
Doc_Long == Pad(160, "z") \o Chars(" Bermuda ") \o Pad(160, "w")

Documents == {Doc_Offshore, Doc_Customers, Doc_Vague, Doc_Earnout, Doc_Plain, Doc_Long}

\* the largest number of chunks a provider is called on
MaxChunks == 2

\* what a provider's API call and the parsing of its answer come to for a chunk
ClaudeResponses == {Raises, Returns(<<>>), Returns(<<P_A7>>), Returns(<<P_L1, P_T>>)}

GptResponses == {Raises, Returns(<<P_L2>>), Returns(<<P_A6, P_L2>>)}

\* one response for each of 1 .. MaxChunks chunks
ChunkResponses(responses) == UNION {[1..n -> responses] : n \in 1..MaxChunks}

\* the largest number of items in a provider's list
MaxItems == 3

\* items of a provider's list: two that are well formed, and one for each way
\* an item can be off
I_Tax == JObject(JStr(Chars("tax")), JStr(Chars("HIGH")), JStr(Title_Tax), JStr(Desc_Due),
                 JStr(Chars("sec 8")), JMissing, JInt(7), JStr(Chars("fix h")))
I_Legal == JObject(JStr(Chars("legal")), JStr(Chars("LOW")), JStr(Title_Cap), JStr(Desc_7),
                   JStr(Pad(520, "q")), JMissing, JInt(2), JStr(Chars("fix e")))
I_BadCategory == [I_Tax EXCEPT !.fields.category = JStr(Chars("bogus"))]
I_BadSeverity == [I_Tax EXCEPT !.fields.severity = JStr(Chars("URGENT"))]
I_LowerSeverity == [I_Tax EXCEPT !.fields.severity = JStr(Chars("high"))]
I_NoCategory == [I_Tax EXCEPT !.fields.category = JMissing]
I_NoSeverity == [I_Tax EXCEPT !.fields.severity = JMissing]
I_ScoreWord == [I_Tax EXCEPT !.fields.score = JStr(Chars("high"))]
I_ScoreDigits == [I_Tax EXCEPT !.fields.score = JStr(Chars(" 7 "))]
I_ScoreNull == [I_Tax EXCEPT !.fields.score = JNull]
I_ScoreLarge == [I_Tax EXCEPT !.fields.score = JInt(99)]
I_QuoteNumber == [I_Tax EXCEPT !.fields.quote = JInt(5)]
I_TitleNumber == [I_Tax EXCEPT !.fields.title = JInt(5)]
I_LocationOnly == [I_Tax EXCEPT !.fields.quote = JMissing,
                                !.fields.location = JStr(Chars("sec 9"))]
I_Empty == JObject(JMissing, JMissing, JMissing, JMissing, JMissing, JMissing, JMissing,
                   JMissing)
I_Text == JScalar("str")

ItemPool ==
    {I_Tax, I_Legal, I_BadCategory, I_BadSeverity, I_LowerSeverity, I_NoCategory,
     I_NoSeverity, I_ScoreWord, I_ScoreDigits, I_ScoreNull, I_ScoreLarge, I_QuoteNumber,
     I_TitleNumber, I_LocationOnly, I_Empty, I_Text}

\* the items that lists of every length are made of
CoreItems ==
    {I_Tax, I_Legal, I_BadCategory, I_BadSeverity, I_NoCategory, I_ScoreWord,
     I_QuoteNumber, I_Text}

\* the lists of at most MaxItems core items, and the single items and pairs of
\* items of the whole pool
ProviderLists ==
    UNION {[1..n -> CoreItems] : n \in 0..MaxItems}
    \cup [1..1 -> ItemPool] \cup [1..2 -> ItemPool]

\* what json.loads comes to for a provider's answer
ProviderAnswers ==
    {[kind |-> kind, items |-> <<>>] : kind \in {"invalid", "object", "scalar"}}
    \cup {[kind |-> kind, items |-> items] :
              kind \in {"array", "flags_object"}, items \in ProviderLists}

\* the source argument of the two callers
Sources == {"claude", "gpt4"}

\* the largest number of uses of a weasel word in a text
MaxOccurrences == 5

Upper(s) ==
    <<>> \o [i \in 1..Len(s) |->
                IF \E k \in 1..Len(LowerChars) : LowerChars[k] = s[i]
                THEN UpperChars[CHOOSE k \in 1..Len(LowerChars) : LowerChars[k] = s[i]]
                ELSE s[i]]

RECURSIVE Repeat(_, _)
Repeat(s, n) == IF n = 0 THEN <<>> ELSE s \o Repeat(s, n - 1)

\* n uses of word: the first in upper case after "item " and followed by 200
\* filler characters, the others in lower case, and then two words that only
\* hold word
WeaselPart(word, n) ==
    (IF n = 0 THEN Chars("none ")
     ELSE Chars("item ") \o Upper(word) \o Chars(" ") \o Pad(200, "z") \o Chars(" ")
          \o Repeat(Chars("and ") \o word \o Chars(", "), n - 1))
    \o Chars("un") \o word \o Chars(" ") \o word \o Chars("ness. ")

\* a text with n1 uses of the first weasel word and then n2 of the second
WeaselText(n1, n2) == WeaselPart(WEASEL_WORDS[1], n1) \o WeaselPart(WEASEL_WORDS[2], n2)

WeaselTexts == {WeaselText(n1, n2) : n1 \in 0..MaxOccurrences, n2 \in 0..MaxOccurrences}

\* the largest percentage in a text
MaxPercentage == 100

\* a sentence that gives the share of the top customers as x percent
ConcentrationText(x) == Chars("top 5 customers represent ") \o IntToChars(x) \o Chars("%")

\* the percentages on both sides of the two thresholds
ThresholdPercentages == {50, 51, 70, 71}

\* two such sentences on one line
ConcentrationPair(x, y) ==
    ConcentrationText(x) \o Chars(" of revenue. The Top 10 Customer accounts: ")
        \o IntToChars(y) \o Chars("%.")

ConcentrationTexts ==
    {ConcentrationText(x) : x \in 0..MaxPercentage}
    \cup {ConcentrationPair(x, y) : x \in ThresholdPercentages, y \in ThresholdPercentages}

\* the largest number of characters between a jurisdiction and a keyword
MaxGap == 160

\* the gaps: none, those around which each keyword leaves the 150 characters
\* on a side of the jurisdiction, and the largest
Gaps == {0} \cup 128..139 \cup {MaxGap}

\* the keywords as a text writes them, and a word that is none
WrittenKeywords ==
    <<Chars("Governing Law"), Chars("ARBITRATION"), Chars("dispute Resolution"),
      Chars("schedules")>>

\* jurisdiction j in upper case, with keyword k written gap characters and
\* two spaces before it, or after it
OffshoreText(j, k, gap, before) ==
    IF before
    THEN WrittenKeywords[k] \o Chars(" ") \o Pad(gap, "z") \o Chars(" ")
             \o Upper(OFFSHORE_JURISDICTIONS[j]) \o Chars(".")
    ELSE Chars("In ") \o Upper(OFFSHORE_JURISDICTIONS[j]) \o Chars(" ") \o Pad(gap, "z")
             \o Chars(" ") \o WrittenKeywords[k]

OffshoreTexts ==
    {OffshoreText(j, k, gap, before) :
        j \in 1..Len(OFFSHORE_JURISDICTIONS), k \in 1..Len(WrittenKeywords),
        gap \in Gaps, before \in BOOLEAN}

\* the second jurisdiction next to a keyword, again far from it, the first
\* jurisdiction, and a word that only holds the second
OffshoreMixed ==
    Chars("Arbitration in ") \o OFFSHORE_JURISDICTIONS[2] \o Chars(". ") \o Pad(200, "z")
        \o Chars(" ") \o Upper(OFFSHORE_JURISDICTIONS[2]) \o Chars(" and the ")
        \o OFFSHORE_JURISDICTIONS[1] \o Chars(", ") \o OFFSHORE_JURISDICTIONS[2]
        \o Chars("n.")

\* two sentences on schedules, the first with indicator i in upper case and
\* the second, on the same line or the next, with indicator j
ScheduleText(i, j, same_line) ==
    Chars("Schedule A is ") \o Upper(missing_indicators[i])
        \o (IF same_line THEN Chars(". ") ELSE Chars(".\n"))
        \o Chars("Schedule B is ") \o missing_indicators[j] \o Chars(".")

ScheduleTexts ==
    {ScheduleText(i, j, same_line) :
        i \in 1..Len(missing_indicators), j \in 1..Len(missing_indicators),
        same_line \in BOOLEAN}

\* an indicator broken by the end of a line
ScheduleBroken == Chars("Schedule A is to be\nprovided and is being\tfinalized.")

\* the two digits of yy
TwoDigits(yy) == <<DigitChars[(yy \div 10) + 1], DigitChars[(yy % 10) + 1]>>

\* the centuries the audit pattern admits
Centuries == {Chars("19"), Chars("20")}

\* a sentence that dates an audit to the year century yy
AuditText(century, yy) ==
    Chars("Last audited in ") \o century \o TwoDigits(yy) \o Chars(".")

AuditTexts == {AuditText(century, yy) : century \in Centuries, yy \in 0..99}

\* three audit dates: 2019, 2024 and 1951
AuditMixed == Chars("Audited 2019. The auditors audit 2024.\nAUDIT of 1951 on file.")

\* texts in which a pattern with ".*" or ".*?" matches across 600 characters
LongFiller == Pad(600, "z")

LongEarnout == Chars("Earnout ") \o LongFiller \o Chars(" to be determined.")

LongSurvival == Chars("Representations survive ") \o LongFiller \o Chars(" 6 months.")

LongConcentration == Chars("Top 5 customers ") \o LongFiller \o Chars(" 75%.")

LongMatchTexts == {LongEarnout, LongSurvival, LongConcentration}

\* the texts each check is run on by itself
CheckTexts ==
    Documents \cup WeaselTexts \cup ConcentrationTexts \cup OffshoreTexts
        \cup {OffshoreMixed} \cup ScheduleTexts \cup {ScheduleBroken}
        \cup AuditTexts \cup {AuditMixed} \cup LongMatchTexts

\* the largest number of documents sent for analysis
MaxRequests == 2

\* documents for which a check gives two findings with different titles: two
\* weasel words used four times each, the same with five uses of the second,
\* two deferred-disclosure phrases, and two shares of the top customers
Doc_TwoWeasels ==
    Chars("reasonable reasonable reasonable reasonable material material material material")
Doc_TwoWeasels45 == Doc_TwoWeasels \o Chars(" material")
Doc_TwoPhrases == Chars("Price is to be determined and subject to review.")
Doc_TwoShares ==
    Chars("Top 5 customers represent 60% of revenue. Top 10 customers represent 80% of revenue.")

PipelineDocuments ==
    {Doc_Plain, Doc_TwoWeasels, Doc_TwoWeasels45, Doc_TwoPhrases, Doc_TwoShares}

\* what the semantic analyzer returns for a document
PipelineLLMFlags == {<<>>, <<P_T>>, <<P_A7>>, <<P_L1, P_T>>}

\* the documents two concurrent analyze calls are run on
ConcurrentDocuments == {Doc_Offshore, Doc_Customers, Doc_Earnout}

\* seconds, in thousandths
ProcessingTimes == {2375}

(***************************************************************************)
(* State                                                                   *)
(***************************************************************************)

VARIABLES
    document_name,    \* the request's document_name argument
    rule_flags,       \* the caller's rule_flags list
    llm_flags,        \* the caller's llm_flags list
    processing_time,  \* the request's processing_time argument
    now,              \* what datetime.now() returns
    reports,          \* the AnalysisResults returned so far, oldest first
    deduplicated,     \* what the last run of the dedup step returned
    dedup_runs,       \* how often the dedup step ran on its own
    rule_engine,      \* the RuleEngine: its list objects and self.flags
    analyses,         \* the analyze calls made so far, oldest first: the text,
                      \* the list object returned and what it held on return
    instances,        \* the RuleEngine instances concurrent callers use
    invocations,      \* the concurrent analyze calls: the text, the instance,
                      \* the statement reached and what was returned
    llm_request,      \* an LLMAnalyzer.analyze call: its flags and what the
                      \* providers' API calls come to
    llm_outcomes,     \* what the LLMAnalyzer.analyze calls so far came to
    parse_request,    \* a _parse_llm_response call: the parsed answer, the
                      \* source and whether the schema validates
    parse_outcomes,   \* what the _parse_llm_response calls so far came to
    check_text,       \* the text the checks of the RuleEngine are run on
    check_outputs     \* what each check run so far appended, in check order

vars == <<document_name, rule_flags, llm_flags, processing_time, now, reports,
          deduplicated, dedup_runs, rule_engine, analyses, instances, invocations,
          llm_request, llm_outcomes, parse_request, parse_outcomes, check_text,
          check_outputs>>

aggregator_vars == <<document_name, rule_flags, llm_flags, processing_time, now,
                     reports, deduplicated, dedup_runs>>

engine_vars == <<rule_engine, analyses>>

concurrent_vars == <<instances, invocations>>

\* no request in the aggregator
AggregatorIdle ==
    /\ document_name \in DocumentNames
    /\ rule_flags = <<>>
    /\ llm_flags = <<>>
    /\ processing_time \in ProcessingTimes
    /\ now = 0
    /\ reports = <<>>
    /\ deduplicated = <<>>
    /\ dedup_runs = 0

\* an engine nobody has called
EngineIdle == rule_engine = new_engine /\ analyses = <<>>

\* no concurrent callers
ConcurrentIdle == instances = <<>> /\ invocations = <<>>

llm_vars == <<llm_request, llm_outcomes>>

\* no call of the LLM analyzer
LLMIdle ==
    /\ llm_request = [use_claude |-> FALSE, use_gpt |-> FALSE,
                      claude |-> <<>>, gpt |-> <<>>]
    /\ llm_outcomes = <<>>

parse_vars == <<parse_request, parse_outcomes>>

\* no call of the parser
ParseIdle ==
    /\ parse_request = [response |-> [kind |-> "invalid", items |-> <<>>],
                        source |-> "claude", validates |-> FALSE]
    /\ parse_outcomes = <<>>

checks_vars == <<check_text, check_outputs>>

\* no check run on its own
ChecksIdle == check_text = <<>> /\ check_outputs = <<>>

Init ==
    /\ document_name \in DocumentNames
    /\ \E in \in BoundedInputs \cup ScenarioInputs \cup {PairsInput} :
          /\ rule_flags = in[1]
          /\ llm_flags = in[2]
    /\ processing_time \in ProcessingTimes
    /\ now = 0
    /\ reports = <<>>
    /\ deduplicated = <<>>
    /\ dedup_runs = 0
    /\ rule_engine = new_engine
    /\ analyses = <<>>
    /\ ConcurrentIdle
    /\ LLMIdle
    /\ ParseIdle
    /\ ChecksIdle

\* result = aggregator.aggregate(document_name, rule_flags, llm_flags, processing_time)
Aggregate ==
    /\ Len(reports) < MaxCalls
    /\ LET call == aggregate(document_name, rule_flags, llm_flags, processing_time, now)
       IN  /\ rule_flags' = call.rule_flags
           /\ llm_flags' = call.llm_flags
           /\ reports' = Append(reports, call.result)
    /\ now' = now + 1
    /\ UNCHANGED <<document_name, processing_time, deduplicated, dedup_runs>>
    /\ UNCHANGED engine_vars
    /\ UNCHANGED concurrent_vars
    /\ UNCHANGED llm_vars
    /\ UNCHANGED parse_vars
    /\ UNCHANGED checks_vars

Next == Aggregate

Spec == Init /\ [][Next]_vars

\* The dedup step on its own: rule_flags holds the list it is first run on.
InitDedup ==
    /\ document_name \in DocumentNames
    /\ \E in \in BoundedInputs :
          /\ rule_flags = in[1]
          /\ llm_flags = in[2]
          /\ in[2] = <<>>
    /\ processing_time \in ProcessingTimes
    /\ now = 0
    /\ reports = <<>>
    /\ deduplicated = <<>>
    /\ dedup_runs = 0
    /\ rule_engine = new_engine
    /\ analyses = <<>>
    /\ ConcurrentIdle
    /\ LLMIdle
    /\ ParseIdle
    /\ ChecksIdle

\* deduplicated = self._deduplicate_flags(...), first on the input, then on
\* what the run before returned
Deduplicate ==
    /\ dedup_runs < MaxDedupRuns
    /\ deduplicated' = deduplicate_flags(
           IF dedup_runs = 0 THEN rule_flags \o llm_flags ELSE deduplicated)
    /\ dedup_runs' = dedup_runs + 1
    /\ UNCHANGED <<document_name, rule_flags, llm_flags, processing_time, now, reports>>
    /\ UNCHANGED engine_vars
    /\ UNCHANGED concurrent_vars
    /\ UNCHANGED llm_vars
    /\ UNCHANGED parse_vars
    /\ UNCHANGED checks_vars

NextDedup == Deduplicate

SpecDedup == InitDedup /\ [][NextDedup]_vars

\* One RuleEngine, called again and again.
InitEngine ==
    /\ document_name \in DocumentNames
    /\ rule_flags = <<>>
    /\ llm_flags = <<>>
    /\ processing_time \in ProcessingTimes
    /\ now = 0
    /\ reports = <<>>
    /\ deduplicated = <<>>
    /\ dedup_runs = 0
    /\ rule_engine = new_engine
    /\ analyses = <<>>
    /\ ConcurrentIdle
    /\ LLMIdle
    /\ ParseIdle
    /\ ChecksIdle

\* rule_flags = rule_engine.analyze(full_text)
Analyze ==
    /\ Len(analyses) < MaxAnalyzeCalls
    /\ \E full_text \in Documents :
          LET call == analyze(rule_engine, full_text)
          IN  /\ rule_engine' = call.engine
              /\ analyses' = Append(analyses,
                     [full_text |-> full_text,
                      returned |-> call.returned,
                      on_return |-> call.engine.lists[call.returned]])
    /\ UNCHANGED aggregator_vars
    /\ UNCHANGED concurrent_vars
    /\ UNCHANGED llm_vars
    /\ UNCHANGED parse_vars
    /\ UNCHANGED checks_vars

NextEngine == Analyze

SpecEngine == InitEngine /\ [][NextEngine]_vars

\* Two analyze calls on different documents, on one shared RuleEngine or on
\* one each, running a statement at a time in any interleaving.
InitConcurrent ==
    /\ AggregatorIdle
    /\ EngineIdle
    /\ LLMIdle
    /\ ParseIdle
    /\ ChecksIdle
    /\ \E shared \in BOOLEAN, t1 \in ConcurrentDocuments, t2 \in ConcurrentDocuments :
          /\ t1 # t2
          /\ instances = IF shared THEN <<new_engine>> ELSE <<new_engine, new_engine>>
          /\ invocations =
                 <<[full_text |-> t1, self |-> 1, pc |-> 0, on_return |-> <<>>],
                   [full_text |-> t2, self |-> IF shared THEN 1 ELSE 2, pc |-> 0,
                    on_return |-> <<>>]>>

\* caller i runs its next statement of analyze up to the last check
AnalyzeStep(i) ==
    /\ invocations[i].pc \in 0..8
    /\ instances' = [instances EXCEPT ![invocations[i].self] =
                         analyze_step(@, invocations[i].pc, invocations[i].full_text)]
    /\ invocations' = [invocations EXCEPT ![i].pc = @ + 1]
    /\ UNCHANGED aggregator_vars
    /\ UNCHANGED engine_vars
    /\ UNCHANGED llm_vars
    /\ UNCHANGED parse_vars
    /\ UNCHANGED checks_vars

\* caller i runs return self.flags
AnalyzeReturn(i) ==
    /\ invocations[i].pc = 9
    /\ invocations' = [invocations EXCEPT
                          ![i].pc = 10,
                          ![i].on_return =
                              LET self == instances[invocations[i].self]
                              IN  self.lists[self.flags]]
    /\ UNCHANGED instances
    /\ UNCHANGED aggregator_vars
    /\ UNCHANGED engine_vars
    /\ UNCHANGED llm_vars
    /\ UNCHANGED parse_vars
    /\ UNCHANGED checks_vars

NextConcurrent ==
    \E i \in 1..Len(invocations) : AnalyzeStep(i) \/ AnalyzeReturn(i)

SpecConcurrent == InitConcurrent /\ [][NextConcurrent]_vars

\* One LLMAnalyzer.analyze call, for every combination of what the providers'
\* API calls come to.
InitLLM ==
    /\ AggregatorIdle
    /\ EngineIdle
    /\ ConcurrentIdle
    /\ ParseIdle
    /\ ChecksIdle
    /\ \E use_claude \in BOOLEAN, use_gpt \in BOOLEAN,
          claude \in ChunkResponses(ClaudeResponses), gpt \in ChunkResponses(GptResponses) :
          llm_request = [use_claude |-> use_claude, use_gpt |-> use_gpt,
                         claude |-> claude, gpt |-> gpt]
    /\ llm_outcomes = <<>>

\* llm_flags = await llm_analyzer.analyze(full_text, use_claude, use_gpt)
LLMAnalyze ==
    /\ llm_outcomes = <<>>
    /\ llm_outcomes' = <<llm_analyze(llm_request.use_claude, llm_request.use_gpt,
                                     llm_request.claude, llm_request.gpt)>>
    /\ UNCHANGED llm_request
    /\ UNCHANGED aggregator_vars
    /\ UNCHANGED engine_vars
    /\ UNCHANGED concurrent_vars
    /\ UNCHANGED parse_vars
    /\ UNCHANGED checks_vars

NextLLM == LLMAnalyze

SpecLLM == InitLLM /\ [][NextLLM]_vars

\* One _parse_llm_response call, for every answer of at most MaxItems items.
InitParse ==
    /\ AggregatorIdle
    /\ EngineIdle
    /\ ConcurrentIdle
    /\ LLMIdle
    /\ ChecksIdle
    /\ \E response \in ProviderAnswers, source \in Sources, validates \in BOOLEAN :
          parse_request = [response |-> response, source |-> source,
                           validates |-> validates]
    /\ parse_outcomes = <<>>

\* flags = self._parse_llm_response(response_text, source=...)
ParseResponse ==
    /\ parse_outcomes = <<>>
    /\ parse_outcomes' = <<parse_llm_response(parse_request.response,
                                              parse_request.source,
                                              parse_request.validates)>>
    /\ UNCHANGED parse_request
    /\ UNCHANGED aggregator_vars
    /\ UNCHANGED engine_vars
    /\ UNCHANGED concurrent_vars
    /\ UNCHANGED llm_vars
    /\ UNCHANGED checks_vars

NextParse == ParseResponse

SpecParse == InitParse /\ [][NextParse]_vars

\* The checks of analyze on one text, one after the other.
InitChecks ==
    /\ AggregatorIdle
    /\ EngineIdle
    /\ ConcurrentIdle
    /\ LLMIdle
    /\ ParseIdle
    /\ check_text \in CheckTexts
    /\ check_outputs = <<>>

\* self._check_...(full_text), the next of the eight
RunCheck ==
    /\ Len(check_outputs) < 8
    /\ check_outputs' = Append(check_outputs,
                               check_output(Len(check_outputs) + 1, check_text))
    /\ UNCHANGED check_text
    /\ UNCHANGED aggregator_vars
    /\ UNCHANGED engine_vars
    /\ UNCHANGED concurrent_vars
    /\ UNCHANGED llm_vars
    /\ UNCHANGED parse_vars

NextChecks == RunCheck

SpecChecks == InitChecks /\ [][NextChecks]_vars

\* Documents sent for analysis one after the other: the rule engine, the
\* semantic analyzer's findings and the aggregator.
InitPipeline ==
    /\ AggregatorIdle
    /\ EngineIdle
    /\ ConcurrentIdle
    /\ LLMIdle
    /\ ParseIdle
    /\ ChecksIdle

\* result = aggregator.aggregate(document_name=..., rule_flags=rule_flags,
\* llm_flags=llm_flags, processing_time=...), with what the request leaves
request_result(full_text, run, found, llm, clock) ==
    [rule_engine |-> run.engine,
     analysis |-> [full_text |-> full_text,
                   returned |-> run.returned,
                   on_return |-> found],
     aggregated |-> aggregate(document_name, Tagged(found, 0),
                              Tagged(llm, Len(found)), processing_time, clock)]

\* rule_flags = rule_engine.analyze(full_text): the list analyze returned
request_flags(full_text, run, llm, clock) ==
    request_result(full_text, run, run.engine.lists[run.returned], llm, clock)

\* rule_engine = RuleEngine(); rule_engine.analyze(full_text); llm_flags as
\* the semantic analyzer returned them; aggregator.aggregate(...)
analyze_document(full_text, llm, clock) ==
    request_flags(full_text, analyze(new_engine, full_text), llm, clock)

\* one request to analyze_document, from the rule engine to the Report
AnalyzeDocument ==
    /\ Len(reports) < MaxRequests
    /\ \E full_text \in PipelineDocuments, llm \in PipelineLLMFlags :
          \E request \in {analyze_document(full_text, llm, now)} :
              /\ rule_engine' = request.rule_engine
              /\ analyses' = Append(analyses, request.analysis)
              /\ rule_flags' = request.aggregated.rule_flags
              /\ llm_flags' = request.aggregated.llm_flags
              /\ reports' = Append(reports, request.aggregated.result)
    /\ now' = now + 1
    /\ UNCHANGED <<document_name, processing_time, deduplicated, dedup_runs>>
    /\ UNCHANGED concurrent_vars
    /\ UNCHANGED llm_vars
    /\ UNCHANGED parse_vars
    /\ UNCHANGED checks_vars

NextPipeline == AnalyzeDocument

SpecPipeline == InitPipeline /\ [][NextPipeline]_vars

(***************************************************************************)
(* What the claims speak of                                                *)
(***************************************************************************)

\* the combined input sequence, rule findings first
Combined == rule_flags \o llm_flags

\* the Report the last aggregate call returned
LastReport == reports[Len(reports)]

IdsOf(flags) == {flags[i].id : i \in 1..Len(flags)}

\* the word set of a finding's key: lowercase title, "|", lowercase first 100
\* characters of the description, cut at whitespace
KeyWords(f) ==
    ToSet(key_split(Lower(f.title) \o <<"|">> \o Lower(Take(f.description, 100))))

\* Jaccard similarity of two word sets >= 0.7
Jaccard07Words(w1, w2) ==
    10 * Cardinality(w1 \cap w2) >= 7 * Cardinality(w1 \cup w2)

\* Jaccard similarity of the two keys >= 0.7
Jaccard07(f, g) == Jaccard07Words(KeyWords(f), KeyWords(g))

SameCategory(f, g) == f.category = g.category

C2_Original ==
    reports # <<>> =>
        LET all == Combined
            kept == IdsOf(LastReport.flags)
        IN  \A i, j \in 1..Len(all) :
                (i < j /\ SameCategory(all[i], all[j])) =>
                    IF Jaccard07(all[i], all[j])
                    THEN ~(all[i].id \in kept /\ all[j].id \in kept)
                    ELSE all[i].id \in kept /\ all[j].id \in kept

\* a finding of the category of f, other than those at i and j, similar to f
SimilarThird(all, i, j, f) ==
    \E k \in 1..Len(all) :
        k # i /\ k # j /\ SameCategory(all[k], f) /\ Jaccard07(all[k], f)

\* C2 (amended): of two findings of one category with similarity >= 0.7 at
\* most one is in the output; with similarity < 0.7 both are in the output
\* when no other finding of their category in the input has similarity >= 0.7
\* with either of them.
C2_Amended ==
    reports # <<>> =>
        LET all == Combined
            kept == IdsOf(LastReport.flags)
        IN  \A i, j \in 1..Len(all) :
                (i < j /\ SameCategory(all[i], all[j])) =>
                    IF Jaccard07(all[i], all[j])
                    THEN ~(all[i].id \in kept /\ all[j].id \in kept)
                    ELSE (~SimilarThird(all, i, j, all[i]) /\ ~SimilarThird(all, i, j, all[j]))
                             => (all[i].id \in kept /\ all[j].id \in kept)

\* a similar pair of which the later one was dropped, beside a dissimilar pair
\* of one category, with no third finding similar to either, both kept
C2_Witness ==
    /\ reports # <<>>
    /\ LET all == Combined
           kept == IdsOf(LastReport.flags)
       IN  /\ \E i, j \in 1..Len(all) :
                  /\ i < j /\ SameCategory(all[i], all[j]) /\ Jaccard07(all[i], all[j])
                  /\ all[i].id \in kept /\ all[j].id \notin kept
           /\ \E i, j \in 1..Len(all) :
                  /\ i < j /\ SameCategory(all[i], all[j]) /\ ~Jaccard07(all[i], all[j])
                  /\ ~SimilarThird(all, i, j, all[i]) /\ ~SimilarThird(all, i, j, all[j])
                  /\ all[i].id \in kept /\ all[j].id \in kept

\* the findings of one category, in arrival order
OfCategory(flags, c) == SelectSeq(flags, LAMBDA f : f.category = c)

\* C3: findings of different categories are never deduplicated against each
\* other: which findings of a category survive is what the dedup step keeps
\* of the findings of that category alone, so a finding with the title and
\* description of one of another category is dropped only for a finding of
\* its own category.
C3_CategoriesIndependent ==
    reports # <<>> =>
        LET all == Combined
            kept == IdsOf(LastReport.flags)
        IN  /\ \A i \in 1..Len(all) :
                   all[i].id \in kept <=>
                       all[i].id \in IdsOf(deduplicate_flags(OfCategory(all, all[i].category)))
            /\ \A i, j \in 1..Len(all) :
                   (/\ ~SameCategory(all[i], all[j])
                    /\ all[i].title = all[j].title
                    /\ all[i].description = all[j].description
                    /\ all[i].id \notin kept)
                       => \E k \in 1..(i - 1) :
                              SameCategory(all[k], all[i]) /\ Jaccard07(all[k], all[i])

\* two findings with the same title and description and different categories
\* were both kept, the later one behind the earlier
C3_Witness ==
    /\ reports # <<>>
    /\ LET all == Combined
           kept == IdsOf(LastReport.flags)
       IN  \E i, j \in 1..Len(all) :
               /\ i < j
               /\ ~SameCategory(all[i], all[j])
               /\ all[i].title = all[j].title
               /\ all[i].description = all[j].description
               /\ all[i].id \in kept /\ all[j].id \in kept

\* C4: the dedup step is idempotent: run on what it returned, it returns the
\* same findings in the same order.
C4_DedupIdempotent ==
    dedup_runs >= 2 => deduplicated = deduplicate_flags(Combined)

\* the dedup step ran on its own output, which was shorter than the input and
\* held findings of two categories that arrived interleaved
C4_Witness ==
    /\ dedup_runs = 2
    /\ Len(deduplicated) < Len(Combined)
    /\ Len(deduplicated) >= 2
    /\ \E i, j, k \in 1..Len(Combined) :
           /\ i < j /\ j < k
           /\ SameCategory(Combined[i], Combined[k])
           /\ ~SameCategory(Combined[i], Combined[j])

\* the place of a finding in the post-dedup sequence: the groups in the order
\* their categories first arrive, arrival order inside a group
FirstOfCategory(all, f) ==
    CHOOSE i \in 1..Len(all) :
        /\ SameCategory(all[i], f)
        /\ \A j \in 1..(i - 1) : ~SameCategory(all[j], f)

PostDedupBefore(all, f, g) ==
    \/ FirstOfCategory(all, f) < FirstOfCategory(all, g)
    \/ (SameCategory(f, g) /\ f.id < g.id)

SeverityRank(f) ==
    CASE f.severity = "CRITICAL" -> 0
      [] f.severity = "HIGH" -> 1
      [] f.severity = "MEDIUM" -> 2
      [] f.severity = "LOW" -> 3

\* C5: the Report's flags are the post-dedup findings in the order of a stable
\* sort by (severity rank, -score): more severe first, within a severity the
\* higher score first, and findings equal in both in their post-dedup order.
C5_StableSort ==
    reports # <<>> =>
        LET all == Combined
            flags == LastReport.flags
        IN  /\ Len(flags) = Len(deduplicate_flags(all))
            /\ IdsOf(flags) = IdsOf(deduplicate_flags(all))
            /\ \A a, b \in 1..Len(flags) :
                   a < b =>
                       \/ SeverityRank(flags[a]) < SeverityRank(flags[b])
                       \/ /\ SeverityRank(flags[a]) = SeverityRank(flags[b])
                          /\ flags[a].score > flags[b].score
                       \/ /\ SeverityRank(flags[a]) = SeverityRank(flags[b])
                          /\ flags[a].score = flags[b].score
                          /\ PostDedupBefore(all, flags[a], flags[b])

\* the sort moved a later finding to the front, and two findings equal in
\* severity and score, of which the one that arrived later stands first
\* because its category arrived first, kept their post-dedup order
C5_Witness ==
    /\ reports # <<>>
    /\ LET flags == LastReport.flags
       IN  /\ \E a, b \in 1..Len(flags) :
                  a < b /\ flags[a].id > flags[b].id
                        /\ SeverityRank(flags[a]) < SeverityRank(flags[b])
           /\ \E a, b \in 1..Len(flags) :
                  /\ a < b
                  /\ flags[a].severity = flags[b].severity
                  /\ flags[a].score = flags[b].score
                  /\ SameCategory(flags[a], flags[b])
                  /\ \E k \in 1..Len(Combined) :
                         /\ flags[a].id < Combined[k].id
                         /\ Combined[k].id < flags[b].id
                         /\ ~SameCategory(Combined[k], flags[a])

WeightOf(f) ==
    CASE f.severity = "CRITICAL" -> 10
      [] f.severity = "HIGH" -> 5
      [] f.severity = "MEDIUM" -> 2
      [] f.severity = "LOW" -> 1

RECURSIVE SumSeq(_)
SumSeq(ns) == IF ns = <<>> THEN 0 ELSE Head(ns) + SumSeq(Tail(ns))

SumOfWeights(flags) == SumSeq([i \in 1..Len(flags) |-> WeightOf(flags[i])])

SumOfWeightedScores(flags) ==
    SumSeq([i \in 1..Len(flags) |-> flags[i].score * WeightOf(flags[i])])

\* C6: the overall risk score (in hundredths) is the weighted mean of the
\* surviving scores rounded to the nearest hundredth; it is 0 for no finding,
\* 10.00 for a single CRITICAL finding of score 10, and between the smallest
\* and the largest surviving score otherwise.
C6_RiskScore ==
    reports # <<>> =>
        LET flags == LastReport.flags
            risk == LastReport.overall_risk_score
            ws == SumOfWeightedScores(flags)
            tw == SumOfWeights(flags)
        IN  IF flags = <<>>
            THEN risk = 0
            ELSE /\ 2 * (100 * ws - risk * tw) <= tw
                 /\ 2 * (risk * tw - 100 * ws) <= tw
                 /\ \A i \in 1..Len(flags) : flags[i].score \in 1..10
                 /\ \E i \in 1..Len(flags) : 100 * flags[i].score <= risk
                 /\ \E i \in 1..Len(flags) : risk <= 100 * flags[i].score
                 /\ risk \in 0..1000
                 /\ (Len(flags) = 1 /\ flags[1].severity = "CRITICAL" /\ flags[1].score = 10)
                        => risk = 1000

\* findings of three severities survived and their weighted mean, 5.875, fell
\* halfway between two hundredths
C6_Witness ==
    /\ reports # <<>>
    /\ LET flags == LastReport.flags
       IN  /\ Len(flags) = 3
           /\ SumOfWeights(flags) = 8
           /\ SumOfWeightedScores(flags) = 47
           /\ LastReport.overall_risk_score = 588

CountOf(flags, sev) == Cardinality({i \in 1..Len(flags) : flags[i].severity = sev})

\* exactly two of the three external findings are near-duplicates of a rule
\* finding of their category, and the rule findings and the third external
\* finding are pairwise dissimilar
NearDuplicateOfRule(g) ==
    \E i \in 1..Len(rule_flags) :
        SameCategory(rule_flags[i], g) /\ Jaccard07(rule_flags[i], g)

IsScenario ==
    /\ Len(rule_flags) = 5
    /\ Len(llm_flags) = 3
    /\ Cardinality({k \in 1..3 : NearDuplicateOfRule(llm_flags[k])}) = 2
    /\ LET others == rule_flags \o SelectSeq(llm_flags, LAMBDA g : ~NearDuplicateOfRule(g))
       IN  \A i, j \in 1..Len(others) :
               (i # j /\ SameCategory(others[i], others[j]))
                   => ~Jaccard07(others[i], others[j])

\* C7: total_flags is the length of flags and the sum of the four severity
\* counts, each count is the number of surviving findings of its severity, and
\* deduplication_removed = rule_flags_count + llm_flags_count - total_flags;
\* five rule findings and three external findings of which two are
\* near-duplicates give total_flags = 6 and deduplication_removed = 2.
C7_Counts ==
    reports # <<>> =>
        LET r == LastReport
        IN  /\ r.total_flags = Len(r.flags)
            /\ r.total_flags = r.critical_count + r.high_count + r.medium_count + r.low_count
            /\ r.critical_count = CountOf(r.flags, "CRITICAL")
            /\ r.high_count = CountOf(r.flags, "HIGH")
            /\ r.medium_count = CountOf(r.flags, "MEDIUM")
            /\ r.low_count = CountOf(r.flags, "LOW")
            /\ r.metadata.rule_flags_count = Len(rule_flags)
            /\ r.metadata.llm_flags_count = Len(llm_flags)
            /\ r.metadata.deduplication_removed =
                   r.metadata.rule_flags_count + r.metadata.llm_flags_count - r.total_flags
            /\ IsScenario => (r.total_flags = 6 /\ r.metadata.deduplication_removed = 2)

\* the scenario ran: eight findings in, six out, two of one severity among them
C7_Witness ==
    /\ reports # <<>>
    /\ IsScenario
    /\ LastReport.total_flags = 6
    /\ LastReport.metadata.deduplication_removed = 2
    /\ LastReport.high_count = 2

\* C8: the Report's flags are a reordering of a sub-collection of
\* rule_flags ++ llm_flags: every element is an input finding with every
\* field as it was passed in, and no input finding occurs twice.
C8_SubCollection ==
    reports # <<>> =>
        LET all == Combined
            flags == LastReport.flags
        IN  /\ \A a \in 1..Len(flags) : \E i \in 1..Len(all) : flags[a] = all[i]
            /\ \A a, b \in 1..Len(flags) : a # b => flags[a].id # flags[b].id

\* a finding was dropped as a duplicate of one with a lower score, and the
\* kept findings were reordered
C8_Witness ==
    /\ reports # <<>>
    /\ LET all == Combined
           flags == LastReport.flags
       IN  /\ Len(flags) >= 2
           /\ \E a, b \in 1..Len(flags) : a < b /\ flags[a].id > flags[b].id
           /\ \E i, j \in 1..Len(all) :
                  /\ all[i].id \in IdsOf(flags) /\ all[j].id \notin IdsOf(flags)
                  /\ SameCategory(all[i], all[j]) /\ Jaccard07(all[i], all[j])
                  /\ all[j].score > all[i].score

EqualExceptTime(r1, r2) ==
    /\ r1.document_name = r2.document_name
    /\ r1.total_flags = r2.total_flags
    /\ r1.critical_count = r2.critical_count
    /\ r1.high_count = r2.high_count
    /\ r1.medium_count = r2.medium_count
    /\ r1.low_count = r2.low_count
    /\ r1.overall_risk_score = r2.overall_risk_score
    /\ r1.flags = r2.flags
    /\ r1.processing_time_seconds = r2.processing_time_seconds
    /\ r1.metadata = r2.metadata

\* C9: an aggregate call leaves the rule_flags and llm_flags lists it was
\* passed as they were, and calls with the same arguments return Reports
\* equal in every field but analyzed_at.
C9_AggregatePure ==
    [][/\ rule_flags' = rule_flags
       /\ llm_flags' = llm_flags
       /\ \A i, j \in 1..Len(reports') : EqualExceptTime(reports'[i], reports'[j])]_vars

\* two calls on the same lists returned Reports with different timestamps and
\* a reordered, shortened flags sequence
C9_Witness ==
    /\ Len(reports) = 2
    /\ reports[1].analyzed_at # reports[2].analyzed_at
    /\ reports[2].metadata.deduplication_removed > 0
    /\ \E a, b \in 1..Len(reports[2].flags) :
           a < b /\ reports[2].flags[a].id > reports[2].flags[b].id

\* what a RuleEngine that was never used returns for a text, for every document
FreshAnalyses ==
    {<<t, LET call == analyze(new_engine, t) IN call.engine.lists[call.returned]>> :
        t \in Documents}

FreshAnalysis(t) == (CHOOSE a \in FreshAnalyses : a[1] = t)[2]

\* C10: analyze is deterministic and stateless across calls: whatever calls
\* came before on the engine, the sequence a call returned equals, in content
\* and order, what a fresh engine returns for its text, so it holds no finding
\* of an earlier call; and it still does after every later call.
C10_AnalyzeStateless ==
    \A k \in 1..Len(analyses) :
        /\ analyses[k].on_return = FreshAnalysis(analyses[k].full_text)
        /\ rule_engine.lists[analyses[k].returned] = analyses[k].on_return

\* three calls on one engine, the first two on different texts with different,
\* non-empty results, the third on the text of the first
C10_Witness ==
    /\ Len(analyses) = 3
    /\ analyses[1].full_text # analyses[2].full_text
    /\ analyses[3].full_text = analyses[1].full_text
    /\ analyses[1].on_return # <<>>
    /\ analyses[2].on_return # <<>>
    /\ analyses[1].on_return # analyses[2].on_return
    /\ rule_engine.lists[analyses[3].returned] = analyses[1].on_return

\* C11: the rule engine is safe to run concurrently with itself on different
\* documents: when two analyze calls on different texts interleave, on
\* separate instances or on a shared one, each returns exactly the findings a
\* sequential run on its own text returns.
C11_ConcurrentAnalyzeSafe ==
    \A i \in 1..Len(invocations) :
        invocations[i].pc = 10 =>
            invocations[i].on_return = FreshAnalysis(invocations[i].full_text)

\* the same, of callers that each have an engine of their own
C11_SeparateInstancesSafe ==
    \A i \in 1..Len(invocations) :
        (invocations[i].pc = 10 /\ Len(instances) = 2) =>
            invocations[i].on_return = FreshAnalysis(invocations[i].full_text)

\* a provider succeeded: it was used and none of its API calls raised
Succeeded(used, responses) ==
    used /\ \A c \in 1..Len(responses) : ~responses[c].raised

\* the findings of all chunks of a provider, in chunk order
RECURSIVE ProviderFindings(_)
ProviderFindings(responses) ==
    IF responses = <<>> THEN <<>>
    ELSE Head(responses).value \o ProviderFindings(Tail(responses))

\* C12: a failure of one provider never keeps the findings of the other from
\* being collected: whatever each provider comes to, LLMAnalyzer.analyze does
\* not raise and returns the findings of the providers that succeeded, Claude's
\* before GPT's, a failed provider contributing none.
C12_ProviderFailureIsolated ==
    \A k \in 1..Len(llm_outcomes) :
        /\ ~llm_outcomes[k].raised
        /\ llm_outcomes[k].value =
               (IF Succeeded(llm_request.use_claude, llm_request.claude)
                THEN ProviderFindings(llm_request.claude) ELSE <<>>)
               \o (IF Succeeded(llm_request.use_gpt, llm_request.gpt)
                   THEN ProviderFindings(llm_request.gpt) ELSE <<>>)

\* Claude failed on its second chunk after answering the first with a finding,
\* GPT succeeded, and the call returned GPT's findings alone
C12_Witness ==
    /\ llm_outcomes # <<>>
    /\ llm_request.use_claude /\ llm_request.use_gpt
    /\ Len(llm_request.claude) = 2
    /\ ~llm_request.claude[1].raised /\ llm_request.claude[1].value # <<>>
    /\ llm_request.claude[2].raised
    /\ Succeeded(TRUE, llm_request.gpt)
    /\ llm_outcomes[1].value = ProviderFindings(llm_request.gpt)
    /\ llm_outcomes[1].value # <<>>

\* an item with every field the providers are asked for, each of its type and
\* within its range
WellFormed(item) ==
    /\ item.type = "dict"
    /\ item.fields.category.type = "str"
    /\ \E member \in FlagCategoryValues : Chars(member) = item.fields.category.str
    /\ item.fields.severity.type = "str"
    /\ \E member \in SeverityLevel : Chars(member) = item.fields.severity.str
    /\ item.fields.title.type = "str"
    /\ item.fields.description.type = "str"
    /\ item.fields.quote.type = "str"
    /\ item.fields.score.type = "int" /\ item.fields.score.int \in 1..10
    /\ item.fields.recommendation.type = "str"

\* the parsed items of the request
ParsedItems ==
    IF parse_request.response.kind \in {"array", "flags_object"}
    THEN parse_request.response.items ELSE <<>>

\* an object that is well formed but for the field key, which holds the text
\* value
OffOnlyIn(item, key, good) ==
    /\ item.type = "dict"
    /\ item.fields[key].type = "str"
    /\ WellFormed([item EXCEPT !.fields[key] = good])
    /\ ~WellFormed(item)

\* C13: an item whose category is none of the enumeration's values comes out
\* as a Finding of category other, and one whose severity is none of CRITICAL,
\* HIGH, MEDIUM, LOW comes out as a Finding of severity MEDIUM.
C13_UnrecognisedCoerced ==
    \A k \in 1..Len(parse_outcomes) : \A i \in 1..Len(ParsedItems) :
        LET item == ParsedItems[i]
            found == parse_outcomes[k].value
        IN  /\ OffOnlyIn(item, "category", JStr(Chars("tax"))) =>
                  \E j \in 1..Len(found) :
                      /\ found[j].category = FlagCategory.OTHER_CATEGORY
                      /\ found[j].title = item.fields.title.str
            /\ OffOnlyIn(item, "severity", JStr(Chars("HIGH"))) =>
                  \E j \in 1..Len(found) :
                      /\ found[j].severity = "MEDIUM"
                      /\ found[j].title = item.fields.title.str

\* the member of values whose value is the text s
MemberOf(values, s) == CHOOSE member \in values : Chars(member) = s

\* the Finding a well-formed item stands for
FindingOf(item, source) ==
    RedFlag(MemberOf(FlagCategoryValues, item.fields.category.str),
            MemberOf(SeverityLevel, item.fields.severity.str),
            item.fields.title.str, item.fields.description.str,
            Take(item.fields.quote.str, 500), item.fields.score.int, source,
            item.fields.recommendation.str)

\* the Findings of the well-formed items among items, in the order of items
RECURSIVE WellFormedFindings(_, _)
WellFormedFindings(items, source) ==
    IF items = <<>> THEN <<>>
    ELSE (IF WellFormed(Head(items)) THEN <<FindingOf(Head(items), source)>> ELSE <<>>)
         \o WellFormedFindings(Tail(items), source)

\* sub can be had from seq by leaving elements out
RECURSIVE IsSubsequence(_, _)
IsSubsequence(sub, seq) ==
    IF sub = <<>> THEN TRUE
    ELSE IF seq = <<>> THEN FALSE
    ELSE IF Head(sub) = Head(seq) THEN IsSubsequence(Tail(sub), Tail(seq))
    ELSE IsSubsequence(sub, Tail(seq))

\* C17: malformed items never abort the batch: _parse_llm_response raises
\* nothing and what it returns holds, in list order, the Finding of every
\* well-formed item of the list, whatever the other items are.
C17_MalformedItemsIsolated ==
    \A k \in 1..Len(parse_outcomes) :
        /\ ~parse_outcomes[k].raised
        /\ IsSubsequence(WellFormedFindings(ParsedItems, parse_request.source),
                         parse_outcomes[k].value)

\* a list with an item of unrecognised category between two well-formed items
\* was parsed into the Findings of these two, in their order
C17_Witness ==
    /\ parse_outcomes # <<>>
    /\ parse_request.response.kind = "array"
    /\ ParsedItems = <<I_Legal, I_BadCategory, I_Tax>>
    /\ parse_outcomes[1].value = <<FindingOf(I_Legal, parse_request.source),
                                   FindingOf(I_Tax, parse_request.source)>>

\* C18: external findings never displace rule findings: the rule findings in
\* the Report are those the dedup step keeps of rule_flags alone, a rule
\* finding is left out only for an earlier kept rule finding of its category
\* that it is similar to, and an external finding similar to a kept rule
\* finding of its category is left out whatever its severity and score.
C18_RuleFindingsNotDisplaced ==
    reports # <<>> =>
        LET kept == IdsOf(LastReport.flags)
        IN  /\ kept \cap IdsOf(rule_flags) = IdsOf(deduplicate_flags(rule_flags))
            /\ \A i \in 1..Len(rule_flags) :
                   rule_flags[i].id \notin kept =>
                       \E j \in 1..(i - 1) :
                           /\ rule_flags[j].id \in kept
                           /\ SameCategory(rule_flags[j], rule_flags[i])
                           /\ Jaccard07(rule_flags[j], rule_flags[i])
            /\ \A r \in 1..Len(rule_flags) : \A l \in 1..Len(llm_flags) :
                   (/\ rule_flags[r].id \in kept
                    /\ SameCategory(rule_flags[r], llm_flags[l])
                    /\ Jaccard07(rule_flags[r], llm_flags[l]))
                       => llm_flags[l].id \notin kept

\* an external finding more severe and of higher score than the kept rule
\* finding it is similar to was left out, beside a rule finding left out for
\* an earlier rule finding
C18_Witness ==
    /\ reports # <<>>
    /\ LET kept == IdsOf(LastReport.flags)
       IN  /\ \E r \in 1..Len(rule_flags) : \E l \in 1..Len(llm_flags) :
                  /\ rule_flags[r].id \in kept
                  /\ SameCategory(rule_flags[r], llm_flags[l])
                  /\ Jaccard07(rule_flags[r], llm_flags[l])
                  /\ llm_flags[l].score > rule_flags[r].score
                  /\ severity_order[llm_flags[l].severity]
                         < severity_order[rule_flags[r].severity]
                  /\ llm_flags[l].id \notin kept
           /\ \E i \in 1..Len(rule_flags) : rule_flags[i].id \notin kept

\* what the k-th check appended, once it has run
CheckRan(k) == Len(check_outputs) >= k

\* the finding the vague-language check is to make of n > 3 uses of word, the
\* first of them at offset first of the text
VagueFinding(word, n, first) ==
    LET end == first + Len(word)
        from == Max(0, first - 150)
        to == Min(Len(check_text), end + 150)
    IN  [category |-> "vague_language", severity |-> "MEDIUM", score |-> 5,
         title |-> Chars("Excessive Vague Language: '") \o word \o Chars("' (")
                       \o IntToChars(n) \o Chars("x)"),
         location |-> (IF from > 0 THEN Chars("...") ELSE <<>>)
                          \o Strip(SubSeq(check_text, from + 1, to))
                          \o (IF to < Len(check_text) THEN Chars("...") ELSE <<>>)]

\* category, severity, score, title and location of each finding of flags
Outline(flags) ==
    [i \in 1..Len(flags) |->
        [category |-> flags[i].category, severity |-> flags[i].severity,
         score |-> flags[i].score, title |-> flags[i].title,
         location |-> flags[i].location]]

\* C15: the vague-language check emits nothing for a weasel word used n <= 3
\* times and, for one used n > 3 times, exactly one finding: vague_language,
\* MEDIUM, score 5, n in the title, the context of the first use as location.
C15_VagueLanguageThreshold ==
    CheckRan(2) =>
        \A n1, n2 \in 0..MaxOccurrences :
            check_text = WeaselText(n1, n2) =>
                Outline(check_outputs[2]) =
                    (IF n1 > 3 THEN <<VagueFinding(WEASEL_WORDS[1], n1, 5)>> ELSE <<>>)
                    \o (IF n2 > 3
                        THEN <<VagueFinding(WEASEL_WORDS[2], n2,
                                            Len(WeaselPart(WEASEL_WORDS[1], n1)) + 5)>>
                        ELSE <<>>)

\* the first weasel word was used three times and the second four times: one
\* finding, for the second, its location holding the first use, in upper case
C15_Witness ==
    /\ CheckRan(2)
    /\ check_text = WeaselText(3, 4)
    /\ Len(check_outputs[2]) = 1
    /\ check_outputs[2][1].score = 5
    /\ Contains(check_outputs[2][1].title, Chars("(4x)"))
    /\ Contains(check_outputs[2][1].location, Chars("item ") \o Upper(WEASEL_WORDS[2]))

\* category, severity, score and title of each finding of flags
Headline(flags) ==
    [i \in 1..Len(flags) |->
        [category |-> flags[i].category, severity |-> flags[i].severity,
         score |-> flags[i].score, title |-> flags[i].title]]

\* what the customer-concentration check is to make of a match with
\* percentage x
ConcentrationFindings(x) ==
    IF x <= 50 THEN <<>>
    ELSE <<[category |-> "customer",
            severity |-> IF x <= 70 THEN "HIGH" ELSE "CRITICAL",
            score |-> IF x <= 70 THEN 7 ELSE 9,
            title |-> Chars("High Customer Concentration (") \o IntToChars(x)
                          \o Chars("%)")]>>

\* C16: for each match of the customer-concentration pattern with percentage
\* x the check emits nothing if x <= 50, one customer finding HIGH of score 7
\* if 50 < x <= 70 and one CRITICAL of score 9 if x > 70.
C16_ConcentrationThresholds ==
    CheckRan(8) =>
        /\ \A x \in 0..MaxPercentage :
               check_text = ConcentrationText(x) =>
                   Headline(check_outputs[8]) = ConcentrationFindings(x)
        /\ \A x, y \in ThresholdPercentages :
               check_text = ConcentrationPair(x, y) =>
                   Headline(check_outputs[8]) =
                       ConcentrationFindings(x) \o ConcentrationFindings(y)

\* 'top 5 customers represent 75%' gave one CRITICAL finding of score 9
C16_Witness ==
    /\ CheckRan(8)
    /\ check_text = Chars("top 5 customers represent 75%")
    /\ Len(check_outputs[8]) = 1
    /\ check_outputs[8][1].category = "customer"
    /\ check_outputs[8][1].severity = "CRITICAL"
    /\ check_outputs[8][1].score = 9

\* what the offshore check is to make of one occurrence of jurisdiction j
OffshoreFinding(j, escalated) ==
    [category |-> "jurisdiction",
     severity |-> IF escalated THEN "CRITICAL" ELSE "HIGH",
     score |-> IF escalated THEN 9 ELSE 7,
     title |-> Chars("Offshore Jurisdiction: ") \o OFFSHORE_JURISDICTIONS[j]]

\* the texts with one occurrence, each with whether the keyword is one of the
\* three and lies within 150 characters of the occurrence
OffshoreCases ==
    {[text |-> OffshoreText(j, k, gap, before),
      expected |-> <<OffshoreFinding(j, k <= 3 /\ gap + 2 + Len(WrittenKeywords[k]) <= 150)>>] :
        j \in 1..Len(OFFSHORE_JURISDICTIONS), k \in 1..Len(WrittenKeywords),
        gap \in Gaps, before \in BOOLEAN}

\* C14: the offshore check emits one jurisdiction finding for every whole-word
\* occurrence, in any case, of every configured jurisdiction: CRITICAL of
\* score 9 if 'governing law', 'arbitration' or 'dispute resolution' is, in
\* any case, within the 150 characters on either side of the occurrence, HIGH
\* of score 7 if not; it emits no other severity and score.
C14_OffshoreSeverity ==
    CheckRan(1) =>
        /\ \A c \in OffshoreCases :
               check_text = c.text => Headline(check_outputs[1]) = c.expected
        /\ check_text = OffshoreMixed =>
               Headline(check_outputs[1]) =
                   <<OffshoreFinding(1, FALSE), OffshoreFinding(2, TRUE),
                     OffshoreFinding(2, FALSE)>>
        /\ \A i \in 1..Len(check_outputs[1]) :
               LET f == check_outputs[1][i]
               IN  /\ f.category = "jurisdiction"
                   /\ <<f.severity, f.score>> \in {<<"CRITICAL", 9>>, <<"HIGH", 7>>}

\* of two occurrences of a jurisdiction in one text the one next to
\* "Arbitration" came out CRITICAL of score 9 and the one 200 characters on
\* HIGH of score 7, behind the one finding of the jurisdiction configured first
C14_Witness ==
    /\ CheckRan(1)
    /\ check_text = OffshoreMixed
    /\ Len(check_outputs[1]) = 3
    /\ check_outputs[1][1].title = Chars("Offshore Jurisdiction: ") \o OFFSHORE_JURISDICTIONS[1]
    /\ check_outputs[1][2].severity = "CRITICAL" /\ check_outputs[1][2].score = 9
    /\ check_outputs[1][3].severity = "HIGH" /\ check_outputs[1][3].score = 7

\* indicator k is in the text, in any case
IndicatorOccurs(k) ==
    \E o \in 0..(Len(check_text) - Len(missing_indicators[k])) :
        \A c \in 1..Len(missing_indicators[k]) :
            LowerChar(check_text[o + c]) = missing_indicators[k][c]

\* C19: the missing-schedule check emits at most one finding; it emits one,
\* missing_info, CRITICAL, score 10, exactly when an indicator of the list is in
\* the text, and the indicator that finding names is the first of the list
\* that is in the text, wherever in the text the indicators are.
C19_FirstIndicatorInListOrder ==
    CheckRan(4) =>
        LET found == check_outputs[4]
            present == {k \in 1..Len(missing_indicators) : IndicatorOccurs(k)}
        IN  /\ Len(found) <= 1
            /\ found # <<>> <=> present # {}
            /\ found # <<>> =>
                   /\ found[1].category = "missing_info"
                   /\ found[1].severity = "CRITICAL"
                   /\ found[1].score = 10
                   /\ found[1].description =
                          Chars("Schedules are incomplete: '")
                              \o missing_indicators[LeastOf(present)]
                              \o Chars("'. Never sign with missing schedules.")
            /\ \A i, j \in 1..Len(missing_indicators) : \A same_line \in BOOLEAN :
                   check_text = ScheduleText(i, j, same_line) =>
                       /\ Len(found) = 1
                       /\ Contains(found[1].description,
                                   Chars("'") \o missing_indicators[Min(i, j)] \o Chars("'"))

\* the text has the last indicator of the list before the second: one finding,
\* which names the second
C19_Witness ==
    /\ CheckRan(4)
    /\ check_text = ScheduleText(5, 2, TRUE)
    /\ Len(check_outputs[4]) = 1
    /\ Contains(check_outputs[4][1].description, Chars("'to be provided'"))
    /\ ~Contains(check_outputs[4][1].description, Chars("to be determined"))

\* what the date-anomaly check is to make of a match with the two-digit year yy
AuditFindings(yy) ==
    LET resolved == IF yy > 50 THEN 1900 + yy ELSE 2000 + yy
    IN  IF resolved < 2023
        THEN <<[category |-> "financial", severity |-> "HIGH", score |-> 7,
                title |-> Chars("Outdated Financial Audit (") \o IntToChars(resolved)
                              \o Chars(")")]>>
        ELSE <<>>

CheckFindings == Concat(check_outputs, 1)

ParsedFindings == Concat([k \in 1..Len(parse_outcomes) |-> parse_outcomes[k].value], 1)

\* C21: the location of every Finding has at most 500 characters: of every
\* Finding a check of the RuleEngine emits for a text, the payment red-flag,
\* liability and missing-schedule checks among them, and of every Finding the
\* semantic analyzer parses from an item.
C21_LocationCapped ==
    /\ \A i \in 1..Len(CheckFindings) : Len(CheckFindings[i].location) <= 500
    /\ \A i \in 1..Len(ParsedFindings) : Len(ParsedFindings[i].location) <= 500

\* the part of C21 on the semantic analyzer alone: the location of a parsed
\* Finding has at most 500 characters
C21_ParsedLocationCapped ==
    \A i \in 1..Len(ParsedFindings) : Len(ParsedFindings[i].location) <= 500

\* the part of C21 on the checks that take their location from a bounded
\* pattern or from the context of a literal: offshore, vague language,
\* high-risk phrase, missing schedule and date anomaly
C21_BoundedChecksCapped ==
    \A k \in 1..Min(Len(check_outputs), 5) : \A i \in 1..Len(check_outputs[k]) :
        Len(check_outputs[k][i].location) <= 500

\* what each of the eight checks gives by itself for each document
DocumentChecks ==
    {<<t, <<>> \o [k \in 1..8 |-> check_output(k, t)]>> : t \in Documents}

ChecksOf(t) == (CHOOSE d \in DocumentChecks : d[1] = t)[2]

\* the titles the checks give their findings, in the order of the checks
CheckTitles ==
    <<{Chars("Offshore Jurisdiction")}, {Chars("Excessive Vague Language")},
      {Chars("Deferred Disclosure")}, {Chars("Missing or Incomplete Schedules")},
      {Chars("Outdated Financial Audit")},
      {Chars("Undefined Earnout Targets"), Chars("Undefined Deferred Payment Terms")},
      {Chars("Short Survival Period")}, {Chars("High Customer Concentration")}>>

\* the check a finding is of, told by its title
CheckOf(f) ==
    CHOOSE k \in 1..Len(CheckTitles) :
        \E title \in CheckTitles[k] : Take(f.title, Len(title)) = title

\* C22: what analyze returns is what the eight checks give, one after the
\* other in the order offshore jurisdiction, vague language, high-risk phrase,
\* missing schedule, date anomaly, payment red flag, liability limitation,
\* customer concentration: a finding of an earlier check stands before every
\* finding of a later one whatever their severities and places in the text,
\* and a check that finds nothing adds nothing and changes no other's findings.
C22_ChecksInFixedOrder ==
    \A k \in 1..Len(analyses) :
        LET found == analyses[k].on_return
        IN  /\ found = Concat(ChecksOf(analyses[k].full_text), 1)
            /\ \A i, j \in 1..Len(found) :
                   i < j => CheckOf(found[i]) <= CheckOf(found[j])

\* a text that starts with "Earnout" and goes on with "to be determined" was
\* analyzed: of its four findings the HIGH one of the high-risk phrase check
\* stands first, before the CRITICAL ones of the missing-schedule check and of
\* the payment check, while the vague-language check and four others found
\* nothing
C22_Witness ==
    \E k \in 1..Len(analyses) :
        LET found == analyses[k].on_return
        IN  /\ analyses[k].full_text = Doc_Earnout
            /\ Len(found) = 4
            /\ CheckOf(found[1]) = 3 /\ found[1].severity = "HIGH"
            /\ CheckOf(found[2]) = 4 /\ found[2].severity = "CRITICAL"
            /\ CheckOf(found[3]) = 6 /\ found[3].severity = "CRITICAL"
            /\ CheckOf(found[4]) = 7

\* C23: aggregation keeps the findings of one analyze run apart: of the rule
\* findings given to aggregate, any two with different titles have keys of
\* Jaccard similarity below 0.7 and are both in the Report.
C23_DistinctRuleFindingsKept ==
    reports # <<>> =>
        LET kept == IdsOf(LastReport.flags)
        IN  \A i, j \in 1..Len(rule_flags) :
                (i < j /\ rule_flags[i].title # rule_flags[j].title) =>
                    /\ ~(SameCategory(rule_flags[i], rule_flags[j])
                         /\ Jaccard07(rule_flags[i], rule_flags[j]))
                    /\ rule_flags[i].id \in kept
                    /\ rule_flags[j].id \in kept

\* the part of C23 that holds: rule findings of different checks, which
\* differ in category or in title and description at once, are all in the
\* Report
C23_DifferentChecksKept ==
    reports # <<>> =>
        LET kept == IdsOf(LastReport.flags)
        IN  \A i, j \in 1..Len(rule_flags) :
                (i < j /\ CheckOf(rule_flags[i]) # CheckOf(rule_flags[j])
                       /\ rule_flags[i].id \in kept) => rule_flags[j].id \in kept

====
